---------------------------- MODULE Spec2Model ----------------------------
(***************************************************************************)
(* A model of processing/TaskProcessor.py (ioi-israel/task-utils):         *)
(*   - the path guard Validator.file / Validator.dir,                      *)
(*   - the staleness check TaskProcessor.needs_generating,                 *)
(*   - the generation run TaskProcessor.generate_all with its two markers, *)
(*   - the snapshot computed by TaskProcessor._get_safe_yaml.              *)
(* Paths are strings, as in the program; the file system is a set of       *)
(* directories, a map of symbolic links and a map from the existing        *)
(* regular files to their modification times.                              *)
(***************************************************************************)
EXTENDS Integers, Sequences, FiniteSets, TLC

VARIABLES
    dirs,       \* the directories of the file system (canonical paths)
    links,      \* symbolic links: canonical path of the link -> its target
    mtime,      \* the regular files: canonical path -> modification time
    vKind,      \* path guard: the last check made, "none" | "file" | "dir"
    vBase,      \* path guard: base_dir of the last check
    vPath,      \* path guard: path of the last check
    vResult,    \* path guard: what the last check returned
    verdict,    \* validation: what assert_task_params did, "none" before it
    post_gen_dir, \* validation: the gen_dir it was given, NoneVal if none
    snapshot,   \* serialization: what _get_safe_yaml did, NoIo before it
    named,      \* naming: the default names of a testcase, NoIo before it
    content,    \* what was last written to each file the program wrote
    clock,      \* the time file operations stamp files with
    task_dir,   \* --task_dir
    gen_dir,    \* --gen_dir
    params_source, \* where the parameters come from: ".py", ".yaml" or "dict"
    params,     \* the task parameters the source yields
    pc,         \* per invocation: the step of generate_all it is at
    si,         \* per invocation: subtask_index of generate_testcases
    ti,         \* per invocation: testcase_index of generate_testcases
    io,         \* per invocation: testcase_io of _generate_testcase
    generator,  \* per invocation: self.generator
    log,        \* per invocation: the operations it performed, in order
    outcome,    \* per invocation: how the last one ended
    runs,       \* the number of invocations started
    edits,      \* the number of edits made to task files
    touched     \* the task files edited since gen.ok was last written

fsVars == <<dirs, links, mtime>>
fnVars == <<verdict, post_gen_dir, snapshot, named>>
guardVars == <<vKind, vBase, vPath, vResult, fnVars>>
cfgVars == <<task_dir, gen_dir, params_source, params>>
runVars == <<pc, si, ti, io, generator, log, outcome, runs>>
genVars == <<content, clock, task_dir, gen_dir, params_source, params,
             pc, si, ti, io, generator, log, outcome, runs, edits,
             touched>>

\* The invocations that may run: callers are told to run one at a time.
Procs == {"p1", "p2"}

\* Python's None, where a path or a mapping is expected.
NoneVal == "<None>"

NoIo == [none |-> TRUE]

\* Python's True as a value of a mapping.
PyTrue == [bool |-> TRUE]

----------------------------------------------------------------------------
(* Strings: str.startswith, str.endswith, str.partition, os.path.*         *)

startswith(s, p) == Len(s) >= Len(p) /\ SubSeq(s, 1, Len(p)) = p

endswith(s, p) ==
    Len(s) >= Len(p) /\ SubSeq(s, Len(s) - Len(p) + 1, Len(s)) = p

\* The position of the first sep at or after position i of s, 0 when none.
RECURSIVE find(_, _, _)
find(s, sep, i) ==
    IF i > Len(s) THEN 0
    ELSE IF SubSeq(s, i, i) = sep THEN i
    ELSE find(s, sep, i + 1)

\* The position of the last sep at or before position i of s, 0 when none.
RECURSIVE rfind(_, _, _)
rfind(s, sep, i) ==
    IF i < 1 THEN 0
    ELSE IF SubSeq(s, i, i) = sep THEN i
    ELSE rfind(s, sep, i - 1)

\* s.split("/"): the segments of s between slashes, empty ones included.
RECURSIVE split(_)
split(s) ==
    LET k == find(s, "/", 1)
    IN  IF k = 0 THEN <<s>>
        ELSE <<SubSeq(s, 1, k - 1)>> \o split(SubSeq(s, k + 1, Len(s)))

\* os.path.isabs
isabs(p) == startswith(p, "/")

\* os.path.join(a, b)
join(a, b) ==
    IF startswith(b, "/") THEN b
    ELSE IF a = "" \/ endswith(a, "/") THEN a \o b
    ELSE a \o "/" \o b

\* The absolute path string of a sequence of components below the root.
RECURSIVE render(_)
render(comps) ==
    IF comps = <<>> THEN "/"
    ELSE IF Len(comps) = 1 THEN "/" \o comps[1]
    ELSE render(SubSeq(comps, 1, Len(comps) - 1)) \o "/" \o comps[Len(comps)]

\* os.path.basename and os.path.dirname of an absolute path.
basename(p) == SubSeq(p, rfind(p, "/", Len(p)) + 1, Len(p))

dirname(p) ==
    LET k == rfind(p, "/", Len(p))
    IN  IF k <= 1 THEN "/" ELSE SubSeq(p, 1, k - 1)

\* os.path.splitext(name)[1]: from the last dot of the last component on,
\* unless that component has only dots before it.
RECURSIVE alldots(_)
alldots(s) ==
    IF s = "" THEN TRUE
    ELSE SubSeq(s, 1, 1) = "." /\ alldots(SubSeq(s, 2, Len(s)))

splitext_ext(p) ==
    LET name == basename(p)
        k    == rfind(name, ".", Len(name))
    IN  IF k = 0 \/ alldots(SubSeq(name, 1, k - 1)) THEN ""
        ELSE SubSeq(name, k, Len(name))

----------------------------------------------------------------------------
(* os.path.realpath, os.path.isfile, os.path.isdir on the file system.     *)

\* How many symbolic links one resolution follows before giving up (the
\* library detects a loop; the layouts used here have none).
MaxLinkDepth == 4

\* posixpath._joinrealpath: stack is the resolved path so far (components
\* below the root), rest the components still to resolve.
RECURSIVE joinrealpath(_, _, _)
joinrealpath(stack, rest, fuel) ==
    IF rest = <<>> THEN stack
    ELSE
        LET name == Head(rest)
            more == Tail(rest)
        IN  IF name = "" \/ name = "." THEN joinrealpath(stack, more, fuel)
            ELSE IF name = ".." THEN
                joinrealpath(IF stack = <<>> THEN <<>>
                             ELSE SubSeq(stack, 1, Len(stack) - 1), more, fuel)
            ELSE
                LET newpath == Append(stack, name)
                IN  IF render(newpath) \notin DOMAIN links
                    THEN joinrealpath(newpath, more, fuel)
                    ELSE IF fuel = 0 THEN newpath \o more
                    ELSE
                        LET target == links[render(newpath)]
                        IN  joinrealpath(IF isabs(target) THEN <<>> ELSE stack,
                                         split(target) \o more, fuel - 1)

\* os.path.realpath of an absolute path.
realpath(p) == render(joinrealpath(<<>>, split(p), MaxLinkDepth))

isfile(p) == realpath(p) \in DOMAIN mtime

isdir(p) == realpath(p) \in dirs

----------------------------------------------------------------------------
(* Validator.string, Validator.file, Validator.dir                         *)

\* Validator.string with min_len = max_len = None, applied to a string.
Validator_string(s) == TRUE

\* A file check without the test that the target is inside base_dir.
Validator_file_unguarded(path, base_dir) == isfile(join(base_dir, path))

Validator_file(path, base_dir) ==
    IF ~Validator_string(path) THEN FALSE
    ELSE
        LET joined == join(base_dir, path)
            real   == realpath(joined)
        IN  IF ~startswith(real, base_dir) THEN FALSE
            ELSE isfile(real)

Validator_dir(path, base_dir) ==
    IF ~Validator_string(path) THEN FALSE
    ELSE
        LET joined == join(base_dir, path)
            real   == realpath(joined)
        IN  IF ~startswith(real, base_dir) THEN FALSE
            ELSE isdir(real)

----------------------------------------------------------------------------
(* class Constants                                                         *)

Constants_types == {"Batch", "OutputOnly", "TwoSteps"}
\* min_time is 0.5 s: one half second.
Constants_min_time_halves == 1
Constants_max_time == 10
Constants_min_memory == 16
Constants_max_memory == 1024
Constants_min_subtasks == 1
Constants_max_subtasks == 100
Constants_min_subtask_testcases == 1
Constants_max_subtask_testcases == 200
Constants_min_subtask_score == 0
Constants_max_subtask_score == 100
Constants_max_attachments == 100
Constants_max_auto_submits == 30
Constants_max_auto_submit_len == 30
Constants_max_auto_submit_score == 1000
Constants_source_exts == {".c", ".cpp", ".cxx", ".cs", ".java"}
Constants_headers_exts == {".h"}
Constants_output_generator_exts == {".c", ".cpp", ".cxx"}
Constants_checker_exts == {".c", ".cpp", ".cxx"}
Constants_statement_exts == {".pdf"}
Constants_statement_langs == {"he", "en"}
Constants_gen_check_ignore_exts == {".lyx", ".pdf", ".doc", ".docx", ".txt"}
Constants_gen_check_ignore_dirs == {"auto.gen"}

\* "%d" % n for a natural number n.
Digits == <<"0", "1", "2", "3", "4", "5", "6", "7", "8", "9">>

RECURSIVE format_d(_)
format_d(n) ==
    IF n < 10 THEN Digits[n + 1]
    ELSE format_d(n \div 10) \o Digits[(n % 10) + 1]

\* "%d" in the place of "%02d": no padding.
format_unpadded(n) == format_d(n)

\* "%02d" % n: at least two digits, padded with a zero.
format_02d(n) == IF n < 10 THEN "0" \o format_d(n) ELSE format_d(n)

\* A naming scheme that numbers the testcases of a subtask from zero.
input_namer_zero_based(subtask_index, subtask_testcase_index) ==
    format_02d(subtask_index + 1) \o "." \o
    format_02d(subtask_testcase_index) \o ".in"

Constants_input_namer(subtask_index, subtask_testcase_index) ==
    format_02d(subtask_index + 1) \o "." \o
    format_02d(subtask_testcase_index + 1) \o ".in"

Constants_output_namer(subtask_index, subtask_testcase_index) ==
    format_02d(subtask_index + 1) \o "." \o
    format_02d(subtask_testcase_index + 1) \o ".out"

\* A naming strategy of existing_testcases_format, as the documented
\* template writes them: lambda si, sti, tti: "testcases/%d.in" % (tti + 1).
\* A strategy is a record [callable |-> TRUE, prefix, suffix]; one that also
\* has the field by_subtask names by subtask and place in the subtask:
\* lambda si, sti, tti: "testcases/%d.%d.in" % (si + 1, sti + 1).
call_namer(namer, subtask_index, subtask_testcase_index, total_testcase_index) ==
    IF "by_subtask" \in DOMAIN namer
    THEN namer.prefix \o format_d(subtask_index + 1) \o "."
             \o format_d(subtask_testcase_index + 1) \o namer.suffix
    ELSE namer.prefix \o format_d(total_testcase_index + 1) \o namer.suffix

----------------------------------------------------------------------------
(* class Validator.  A list is a sequence and a mapping a function on its  *)
(* keys.  A value handed to Validator.number is a record [kind, halves,    *)
(* nan]: kind is its Python type ("int", "bool", "float", or "str" for a   *)
(* value that is no number), halves its value in half units, nan whether   *)
(* it is the float nan.  Each assert_* yields "ok" or the error it raises. *)

PyInt(n) == [kind |-> "int", halves |-> 2 * n, nan |-> FALSE]

\* The float h / 2.
PyFloat(h) == [kind |-> "float", halves |-> h, nan |-> FALSE]

\* float("nan"): a float that is neither below nor above any number.
PyNaN == [kind |-> "float", halves |-> 0, nan |-> TRUE]

\* True and False are instances of int, worth 1 and 0.
PyBool(b) == [kind |-> "bool", halves |-> IF b THEN 2 ELSE 0, nan |-> FALSE]

\* A value that is no number (a string).
PyStr == [kind |-> "str", halves |-> 0, nan |-> FALSE]

\* number < bound and number > bound, bound in half units.
py_less(number, bound) == ~number.nan /\ number.halves < bound

py_greater(number, bound) == ~number.nan /\ number.halves > bound

\* int(number) for an int or a bool.
int_value(number) == number.halves \div 2

\* An absent (None) length bound.
NoBound == -1

\* A range check that excludes the two bounds.
Validator_number_exclusive(number, allow_float, min_val, max_val) ==
    /\ number.kind \in {"int", "bool"} \/ (allow_float /\ number.kind = "float")
    /\ py_greater(number, min_val)
    /\ py_less(number, max_val)

\* Validator.number, min_val and max_val in half units.
\* Validator.number taking a float where only an integer is allowed.
Validator_number_any_type(number, allow_float, min_val, max_val) ==
    IF number.kind \notin {"int", "bool", "float"} THEN FALSE
    ELSE IF py_less(number, min_val) THEN FALSE
    ELSE IF py_greater(number, max_val) THEN FALSE
    ELSE TRUE

Validator_number(number, allow_float, min_val, max_val) ==
    LET is_int == number.kind \in {"int", "bool"}
        is_float == number.kind = "float"
    IN  IF ~is_int /\ ~is_float THEN FALSE
        ELSE IF ~is_int /\ ~allow_float THEN FALSE
        ELSE IF py_less(number, min_val) THEN FALSE
        ELSE IF py_greater(number, max_val) THEN FALSE
        ELSE TRUE

Validator_list(items, min_len, max_len) ==
    /\ ~(min_len # NoBound /\ Len(items) < min_len)
    /\ ~(max_len # NoBound /\ Len(items) > max_len)

\* A value that is no mapping and no number (a string).
PyOther == [pytype |-> "str"]

Validator_dict(dictionary, min_len, max_len) ==
    /\ "pytype" \notin DOMAIN dictionary
    /\ ~(min_len # NoBound /\ Cardinality(DOMAIN dictionary) < min_len)
    /\ ~(max_len # NoBound /\ Cardinality(DOMAIN dictionary) > max_len)

Validator_files_list(paths, min_list_len, max_list_len, base_dir) ==
    /\ Validator_list(paths, min_list_len, max_list_len)
    /\ \A i \in 1..Len(paths) : Validator_file(paths[i], base_dir)

\* A list check that does not look at the values.
Validator_numbers_list_any(numbers, min_list_len, max_list_len, min_val, max_val) ==
    Validator_list(numbers, min_list_len, max_list_len)

Validator_numbers_list(numbers, min_list_len, max_list_len, min_val, max_val) ==
    /\ Validator_list(numbers, min_list_len, max_list_len)
    /\ \A i \in 1..Len(numbers) :
          Validator_number(PyInt(numbers[i]), FALSE, 2 * min_val, 2 * max_val)

\* The first error of a sequence of check results, "ok" when there is none.
RECURSIVE first_error(_)
first_error(results) ==
    IF results = <<>> THEN "ok"
    ELSE IF Head(results) # "ok" THEN Head(results)
    ELSE first_error(Tail(results))

assert_task_type(p) ==
    IF "type" \notin DOMAIN p THEN "Could not find key: type"
    ELSE IF p["type"] \notin Constants_types THEN "Could not find key: <type>"
    ELSE "ok"

assert_task_limits(p) ==
    IF "time" \notin DOMAIN p THEN "Could not find key: time"
    ELSE IF ~Validator_number(p["time"], TRUE, Constants_min_time_halves,
                              2 * Constants_max_time)
        THEN "time should be a valid number"
    ELSE IF "memory" \notin DOMAIN p THEN "Could not find key: memory"
    ELSE IF ~Validator_number(p["memory"], FALSE, 2 * Constants_min_memory,
                              2 * Constants_max_memory)
        THEN "memory should be a valid number"
    ELSE "ok"

assert_task_attachments(p, base) ==
    IF "attachments" \notin DOMAIN p THEN "ok"
    ELSE IF ~Validator_files_list(p["attachments"], NoBound,
                                  Constants_max_attachments, base)
        THEN "attachments should be a valid files_list"
    ELSE "ok"

\* An extension loop that does not remember the extensions it has seen.
exts_error_forgetful(paths, i, allowed, unique, what) ==
    IF \E k \in i..Len(paths) : splitext_ext(paths[k]) \notin allowed
    THEN "Unknown " \o what \o " extension"
    ELSE "ok"

\* The loop over a list of paths that raises at the first one whose
\* extension is not allowed, or (graders) repeats an earlier one.
RECURSIVE exts_error(_, _, _, _, _)
exts_error(paths, i, allowed, unique, what) ==
    IF i > Len(paths) THEN "ok"
    ELSE
        LET ext == splitext_ext(paths[i])
        IN  IF ext \notin allowed THEN "Unknown " \o what \o " extension"
            ELSE IF unique /\ \E j \in 1..(i - 1) : splitext_ext(paths[j]) = ext
                THEN "Duplicate " \o what \o " type"
            ELSE exts_error(paths, i + 1, allowed, unique, what)

assert_task_graders(p, base) ==
    IF "graders" \notin DOMAIN p THEN "ok"
    ELSE IF ~Validator_files_list(p["graders"], NoBound, NoBound, base)
        THEN "graders should be a valid files_list"
    ELSE exts_error(p["graders"], 1, Constants_source_exts, TRUE, "grader")

assert_task_managers(p, base) ==
    IF "managers" \notin DOMAIN p THEN "ok"
    ELSE IF ~Validator_files_list(p["managers"], NoBound, NoBound, base)
        THEN "managers should be a valid files_list"
    ELSE exts_error(p["managers"], 1, Constants_source_exts, FALSE, "manager")

assert_task_headers(p, base) ==
    IF "headers" \notin DOMAIN p THEN "ok"
    ELSE IF ~Validator_files_list(p["headers"], NoBound, NoBound, base)
        THEN "headers should be a valid files_list"
    ELSE exts_error(p["headers"], 1, Constants_headers_exts, FALSE, "header")

\* A statements loop that does not remember the languages it has seen.
statements_error_forgetful(statements, i, base) ==
    IF \A k \in i..Len(statements) :
          /\ {"language", "path"} \subseteq DOMAIN statements[k]
          /\ statements[k]["language"] \in Constants_statement_langs
          /\ splitext_ext(statements[k]["path"]) \in Constants_statement_exts
          /\ Validator_file(statements[k]["path"], base)
    THEN "ok"
    ELSE "statement should be a valid file"

RECURSIVE statements_error(_, _, _)
statements_error(statements, i, base) ==
    IF i > Len(statements) THEN "ok"
    ELSE
        LET info == statements[i]
        IN  IF "language" \notin DOMAIN info THEN "Statement must specify language."
            ELSE IF "path" \notin DOMAIN info THEN "Statement must specify path."
            ELSE IF info["language"] \notin Constants_statement_langs
                THEN "Unknown statement language"
            ELSE IF \E j \in 1..(i - 1) :
                        statements[j]["language"] = info["language"]
                THEN "Statement language collision"
            ELSE IF splitext_ext(info["path"]) \notin Constants_statement_exts
                THEN "Unknown statement extension"
            ELSE IF ~Validator_file(info["path"], base)
                THEN "statement should be a valid file"
            ELSE statements_error(statements, i + 1, base)

assert_task_statements(p, base) ==
    IF "statements" \notin DOMAIN p THEN "ok"
    ELSE statements_error(p["statements"], 1, base)

assert_task_output_generator(p, base) ==
    IF "output_generator" \notin DOMAIN p THEN "ok"
    ELSE IF ~Validator_file(p["output_generator"], base)
        THEN "output_generator should be a valid file"
    ELSE IF splitext_ext(p["output_generator"])
                \notin Constants_output_generator_exts
        THEN "Unknown generator extension"
    ELSE "ok"

assert_task_checker(p, base, gen) ==
    IF "checker" \notin DOMAIN p THEN "ok"
    ELSE IF ~Validator_file(p["checker"], base)
        THEN "checker should be a valid file"
    ELSE IF splitext_ext(p["checker"]) \notin Constants_checker_exts
        THEN "Unknown generator extension"
    ELSE IF gen # NoneVal /\ ~Validator_file("checker", gen)
        THEN "checker should be a valid file"
    ELSE "ok"

\* The number of files per submission (num_submission_files).
num_submission_files == 1

RECURSIVE auto_submit_error(_, _, _)
auto_submit_error(items, i, base) ==
    IF i > Len(items) THEN "ok"
    ELSE
        LET item == items[i]
        IN  IF ~Validator_dict(item, 3, 3)
                THEN "auto submit item should be a valid dict"
            ELSE IF "name" \notin DOMAIN item
                    \/ Len(item["name"]) < 1
                    \/ Len(item["name"]) > Constants_max_auto_submit_len
                THEN "auto submit name should be a valid string"
            ELSE IF "score" \notin DOMAIN item
                    \/ ~Validator_number(item["score"], TRUE, 0,
                                         2 * Constants_max_auto_submit_score)
                THEN "auto submit score should be a valid number"
            ELSE IF "files" \notin DOMAIN item
                    \/ ~Validator_files_list(item["files"], num_submission_files,
                                             num_submission_files, base)
                THEN "auto submit files should be a valid files_list"
            ELSE IF exts_error(item["files"], 1, Constants_source_exts,
                               FALSE, "auto submit") # "ok"
                THEN "Auto submit file must have a valid source file extension."
            ELSE auto_submit_error(items, i + 1, base)

assert_auto_submit(p, base) ==
    IF "auto_submit" \notin DOMAIN p THEN "ok"
    ELSE IF ~Validator_list(p["auto_submit"], 0, Constants_max_auto_submits)
        THEN "Expected auto_submit to be a list"
    ELSE IF p["auto_submit"] = <<>> THEN "ok"
    ELSE IF p["type"] # "Batch"
        THEN "Auto submit only supported in batch tasks currently."
    ELSE auto_submit_error(p["auto_submit"], 1, base)

\* Whether existing_testcases_format holds the pair of naming strategies
\* (isinstance(existing_format, dict)); a snapshot holds True instead.
existing_is_dict(p) ==
    /\ "existing_testcases_format" \in DOMAIN p
    /\ "bool" \notin DOMAIN p["existing_testcases_format"]

\* assert_testcase looking at gen_dir before the naming strategies.
assert_testcase_gen_dir_first(p, subtask_index, subtask_testcase_index, total_testcase_index, base, gen) ==
    IF gen # NoneVal THEN
        IF "testcases" \notin DOMAIN p["subtasks"][subtask_index + 1]
            THEN "KeyError: testcases"
        ELSE IF subtask_testcase_index + 1
                    > Len(p["subtasks"][subtask_index + 1]["testcases"])
            THEN "IndexError: testcases"
        ELSE
            LET testcase == p["subtasks"][subtask_index + 1]["testcases"]
                                                     [subtask_testcase_index + 1]
            IN  IF ~Validator_dict(testcase, NoBound, NoBound)
                    THEN "TypeError: testcase"
                ELSE IF "input" \notin DOMAIN testcase THEN "KeyError: input"
                ELSE IF "output" \notin DOMAIN testcase THEN "KeyError: output"
                ELSE IF ~Validator_file(testcase["input"], base)
                    THEN "input should be a valid file"
                ELSE IF ~Validator_file(testcase["output"], base)
                    THEN "output should be a valid file"
                ELSE "ok"
    ELSE IF existing_is_dict(p) THEN
        LET fmt == p["existing_testcases_format"]
            input_name == call_namer(fmt["input"], subtask_index,
                                     subtask_testcase_index, total_testcase_index)
            output_name == call_namer(fmt["output"], subtask_index,
                                      subtask_testcase_index, total_testcase_index)
        IN  IF ~Validator_file(input_name, base) THEN "input should be a valid file"
            ELSE IF ~Validator_file(output_name, base)
                THEN "output should be a valid file"
            ELSE "ok"
    ELSE IF "testcases" \notin DOMAIN p["subtasks"][subtask_index + 1]
        THEN "KeyError: testcases"
    ELSE IF ~Validator_dict(p["subtasks"][subtask_index + 1]["testcases"]
                                [subtask_testcase_index + 1], NoBound, NoBound)
        THEN "testcase should be a valid dict"
    ELSE "ok"

assert_testcase(p, subtask_index, subtask_testcase_index, total_testcase_index, base, gen) ==
    IF existing_is_dict(p) THEN
        LET fmt == p["existing_testcases_format"]
            input_name == call_namer(fmt["input"], subtask_index,
                                     subtask_testcase_index, total_testcase_index)
            output_name == call_namer(fmt["output"], subtask_index,
                                      subtask_testcase_index, total_testcase_index)
        IN  IF ~Validator_file(input_name, base) THEN "input should be a valid file"
            ELSE IF ~Validator_file(output_name, base)
                THEN "output should be a valid file"
            ELSE "ok"
    ELSE IF "testcases" \notin DOMAIN p["subtasks"][subtask_index + 1]
        THEN "KeyError: testcases"
    ELSE IF subtask_testcase_index + 1
                > Len(p["subtasks"][subtask_index + 1]["testcases"])
        THEN "IndexError: testcases"
    ELSE
        LET testcase == p["subtasks"][subtask_index + 1]["testcases"]
                                                 [subtask_testcase_index + 1]
        IN  IF gen # NoneVal THEN
                IF ~Validator_dict(testcase, NoBound, NoBound)
                    THEN "TypeError: testcase"
                ELSE IF "input" \notin DOMAIN testcase THEN "KeyError: input"
                ELSE IF "output" \notin DOMAIN testcase THEN "KeyError: output"
                ELSE IF ~Validator_file(testcase["input"], base)
                    THEN "input should be a valid file"
                ELSE IF ~Validator_file(testcase["output"], base)
                    THEN "output should be a valid file"
                ELSE "ok"
            ELSE IF ~Validator_dict(testcase, NoBound, NoBound)
                THEN "testcase should be a valid dict"
            ELSE "ok"

\* num_testcases of assert_subtask: the explicit value, or the length of
\* the testcases list (0 when the key it needs is missing: the check has
\* raised before using it).
subtask_num_testcases(p, subtask) ==
    IF "existing_testcases_format" \in DOMAIN p
    THEN IF "num_testcases" \in DOMAIN subtask THEN subtask["num_testcases"]
         ELSE PyInt(0)
    ELSE IF "testcases" \in DOMAIN subtask THEN PyInt(Len(subtask["testcases"]))
         ELSE PyInt(0)

\* The loop of assert_subtask counting every subtask's testcases from 0.
testcases_error_from_zero(p, subtask_index, index, num_testcases, acc_testcases, base, gen) ==
    LET refused == {i \in index..(num_testcases - 1) :
                       assert_testcase(p, subtask_index, i, i, base, gen) # "ok"}
    IN  IF refused = {} THEN "ok"
        ELSE LET first == CHOOSE i \in refused : \A j \in refused : i <= j
             IN  assert_testcase(p, subtask_index, first, first, base, gen)

\* The loop of assert_subtask over its testcases: the error of the first
\* testcase, from index on, that assert_testcase refuses.
testcases_error(p, subtask_index, index, num_testcases, acc_testcases, base, gen) ==
    LET refused == {i \in index..(num_testcases - 1) :
                       assert_testcase(p, subtask_index, i, acc_testcases + i,
                                       base, gen) # "ok"}
    IN  IF refused = {} THEN "ok"
        ELSE LET first == CHOOSE i \in refused : \A j \in refused : i <= j
             IN  assert_testcase(p, subtask_index, first, acc_testcases + first,
                                 base, gen)

assert_subtask(p, subtask_index, acc_testcases, base, gen) ==
    LET subtask == p["subtasks"][subtask_index + 1]
        num_testcases == subtask_num_testcases(p, subtask)
    IN  IF ~Validator_dict(subtask, NoBound, NoBound)
            THEN "Subtask must be a dictionary."
        ELSE IF "score" \notin DOMAIN subtask THEN "Subtask must specify score."
        ELSE IF ~Validator_number(subtask["score"], FALSE,
                                  2 * Constants_min_subtask_score,
                                  2 * Constants_max_subtask_score)
            THEN "subtask score should be a valid number"
        ELSE IF "contains" \in DOMAIN subtask
                /\ ~Validator_numbers_list(subtask["contains"], NoBound,
                                           subtask_index, 1, subtask_index)
            THEN "contained subtasks should be a valid numbers_list"
        ELSE IF "existing_testcases_format" \in DOMAIN p
                /\ "num_testcases" \notin DOMAIN subtask
            THEN "Subtask must contain key 'num_testcases'"
        ELSE IF "existing_testcases_format" \notin DOMAIN p
                /\ "testcases" \notin DOMAIN subtask
            THEN "Subtask must contain key 'testcases'."
        ELSE IF ~Validator_number(num_testcases, FALSE,
                                  2 * Constants_min_subtask_testcases,
                                  2 * Constants_max_subtask_testcases)
            THEN "num_testcases should be a valid number"
        ELSE testcases_error(p, subtask_index, 0, int_value(num_testcases),
                             acc_testcases, base, gen)

\* The sum of counts[lo..hi], by halves.
RECURSIVE sum_counts(_, _, _)
sum_counts(counts, lo, hi) ==
    IF lo > hi THEN 0
    ELSE IF lo = hi THEN counts[lo]
    ELSE LET mid == (lo + hi) \div 2
         IN  sum_counts(counts, lo, mid) + sum_counts(counts, mid + 1, hi)

\* The loop of assert_task_subtasks: the error of the first subtask, from
\* index on, that assert_subtask refuses; acc_testcases grows by the number
\* of testcases of each subtask passed.
subtasks_error(p, index, acc_testcases, base, gen) ==
    LET counts == [j \in 1..Len(p["subtasks"]) |->
                      int_value(subtask_num_testcases(p, p["subtasks"][j]))]
        acc(i) == acc_testcases + sum_counts(counts, index + 1, i)
        refused == {i \in index..(Len(p["subtasks"]) - 1) :
                       assert_subtask(p, i, acc(i), base, gen) # "ok"}
    IN  IF refused = {} THEN "ok"
        ELSE LET first == CHOOSE i \in refused : \A j \in refused : i <= j
             IN  assert_subtask(p, first, acc(first), base, gen)

assert_task_subtasks(p, base, gen) ==
    IF "subtasks" \notin DOMAIN p THEN "Missing 'subtasks' in the task params."
    ELSE IF ~Validator_list(p["subtasks"], Constants_min_subtasks,
                            Constants_max_subtasks)
        THEN "Subtasks should be a list of reasonable size."
    ELSE subtasks_error(p, 0, 0, base, gen)

\* A validator that checks the subtasks before the optional fields.
assert_task_params_subtasks_first(p, base, gen) ==
    IF ~isdir(base) THEN "Expected valid dir"
    ELSE IF assert_task_type(p) # "ok" THEN assert_task_type(p)
    ELSE IF p["type"] # "OutputOnly" /\ assert_task_limits(p) # "ok"
        THEN assert_task_limits(p)
    ELSE first_error(<<assert_task_subtasks(p, base, gen),
                       assert_task_attachments(p, base),
                       assert_task_graders(p, base),
                       assert_task_managers(p, base),
                       assert_task_headers(p, base),
                       assert_task_statements(p, base),
                       assert_task_output_generator(p, base),
                       assert_auto_submit(p, base),
                       assert_task_checker(p, base, gen)>>)

assert_task_params(p, base, gen) ==
    IF ~isdir(base) THEN "Expected valid dir"
    ELSE IF assert_task_type(p) # "ok" THEN assert_task_type(p)
    ELSE IF p["type"] # "OutputOnly" /\ assert_task_limits(p) # "ok"
        THEN assert_task_limits(p)
    ELSE first_error(<<assert_task_attachments(p, base),
                       assert_task_graders(p, base),
                       assert_task_managers(p, base),
                       assert_task_headers(p, base),
                       assert_task_statements(p, base),
                       assert_task_output_generator(p, base),
                       assert_auto_submit(p, base),
                       assert_task_checker(p, base, gen),
                       assert_task_subtasks(p, base, gen)>>)

----------------------------------------------------------------------------
(* TaskProcessor: the snapshot, the markers and the staleness check.       *)

\* A serializer that dumps whatever it is given.
has_callable_unseen(p) == FALSE

\* yaml.safe_dump refuses a value that is not plain data.  The values
\* that can be callables are the naming strategies, which sit under
\* existing_testcases_format, and the values of keys the validator does
\* not know, which are copied as they are ("extra" stands for such a key).
has_callable(p) ==
    \/ /\ "existing_testcases_format" \in DOMAIN p
       /\ "bool" \notin DOMAIN p["existing_testcases_format"]
    \/ /\ "extra" \in DOMAIN p
       /\ "callable" \in DOMAIN p["extra"]

\* acc_testcases of _get_safe_yaml before the subtask at subtask_index.
safe_yaml_acc(subtasks, existing, subtask_index) ==
    sum_counts([j \in 1..Len(subtasks) |->
                   IF existing THEN int_value(subtasks[j]["num_testcases"])
                   ELSE Len(subtasks[j]["testcases"])],
               1, subtask_index)

\* subtask_copy of _get_safe_yaml for the subtask at subtask_index.
safe_yaml_subtask(p, base, gen, subtask_index) ==
    LET existing == "existing_testcases_format" \in DOMAIN p
        subtask == p["subtasks"][subtask_index + 1]
        num_testcases == IF existing THEN subtask["num_testcases"]
                         ELSE PyInt(Len(subtask["testcases"]))
        acc_testcases == safe_yaml_acc(p["subtasks"], existing, subtask_index)
        root == IF existing THEN base ELSE gen
        in_name(sti) ==
            IF existing
            THEN call_namer(p["existing_testcases_format"]["input"],
                            subtask_index, sti, sti + acc_testcases)
            ELSE Constants_input_namer(subtask_index, sti)
        out_name(sti) ==
            IF existing
            THEN call_namer(p["existing_testcases_format"]["output"],
                            subtask_index, sti, sti + acc_testcases)
            ELSE Constants_output_namer(subtask_index, sti)
    IN  [score |-> subtask["score"],
         testcases |-> [t \in 1..int_value(num_testcases) |->
                          [input |-> join(root, in_name(t - 1)),
                           output |-> join(root, out_name(t - 1))]],
         num_testcases |-> num_testcases,
         contains |-> IF "contains" \in DOMAIN subtask
                      THEN subtask["contains"] ELSE <<>>]

\* params_copy of _get_safe_yaml, before it is dumped.
safe_yaml_copy(p, base, gen) ==
    [k \in DOMAIN p |->
        IF k = "existing_testcases_format" THEN PyTrue
        ELSE IF k = "subtasks"
            THEN [i \in 1..Len(p["subtasks"]) |->
                     safe_yaml_subtask(p, base, gen, i - 1)]
        ELSE p[k]]

\* _get_safe_yaml: the document written, or the failure of yaml.safe_dump,
\* or the TypeError of True["input"] when existing_testcases_format is the
\* True of a snapshot.
get_safe_yaml(p, base, gen) ==
    IF "existing_testcases_format" \in DOMAIN p /\ ~existing_is_dict(p)
    THEN [ok |-> FALSE]
    ELSE LET copy == safe_yaml_copy(p, base, gen)
         IN  IF has_callable(copy) THEN [ok |-> FALSE]
             ELSE [ok |-> TRUE, doc |-> copy]

\* TaskProcessor.touch on the map of modification times.
touch(m, path, now) ==
    [f \in (DOMAIN m) \cup {path} |-> IF f = path THEN now ELSE m[f]]

\* os.remove on a map keyed by file path.
remove(m, path) == [f \in (DOMAIN m) \ {path} |-> m[f]]

\* open(path, "w") and write: the file's new content.
write(c, path, data) ==
    [f \in (DOMAIN c) \cup {path} |-> IF f = path THEN data ELSE c[f]]

gen_error_path(gen) == join(gen, "gen.error")

gen_ok_path(gen) == join(gen, "gen.ok")

\* Variants of the marker operations that leave the marker as it was.
mark_error_no_touch(m, gen, now) == m

mark_ok_keep_error(m, gen) == m

\* A mark_error that leaves gen.ok where it is.
mark_error_keep_ok(m, gen) == m

\* mark_error, its two file operations on the modification times.
mark_error_touch(m, gen, now) == touch(m, gen_error_path(gen), now)

mark_error_remove(m, gen) ==
    IF gen_ok_path(gen) \in DOMAIN m THEN remove(m, gen_ok_path(gen)) ELSE m

\* mark_ok, its two file operations on the modification times.
mark_ok_touch(m, gen, now) == touch(m, gen_ok_path(gen), now)

mark_ok_remove(m, gen) ==
    IF gen_error_path(gen) \in DOMAIN m THEN remove(m, gen_error_path(gen)) ELSE m

\* Variants of the two filters that know hidden names only.
is_file_hidden(filename) == startswith(filename, ".")

is_dir_hidden(dirname_) == startswith(dirname_, ".")

\* A comparison that also counts a tie as newer.
is_newer_or_equal(file_time, last_ok_time) == file_time >= last_ok_time

is_file_irrelevant(filename) ==
    IF startswith(filename, ".") THEN TRUE
    ELSE splitext_ext(filename) \in Constants_gen_check_ignore_exts

is_dir_irrelevant(dirname_) ==
    startswith(dirname_, ".") \/ dirname_ \in Constants_gen_check_ignore_dirs

\* The comparison of a file's modification time with gen.ok's.
is_newer(file_time, last_ok_time) == file_time > last_ok_time

\* The loop over os.walk(root): whether it returns True at some file of root
\* or of a directory below root that it does not prune.
RECURSIVE walk_finds_newer(_, _)
walk_finds_newer(root, last_ok_time) ==
    \/ \E f \in DOMAIN mtime :
          /\ dirname(f) = root
          /\ ~is_file_irrelevant(basename(f))
          /\ is_newer(mtime[f], last_ok_time)
    \/ \E d \in dirs :
          /\ d # root
          /\ dirname(d) = root
          /\ ~is_dir_irrelevant(basename(d))
          /\ walk_finds_newer(d, last_ok_time)

needs_generating(base, gen) ==
    IF isfile(gen_error_path(gen)) \/ ~isfile(gen_ok_path(gen)) THEN TRUE
    ELSE walk_finds_newer(base, mtime[gen_ok_path(gen)])

----------------------------------------------------------------------------
(* The path guard applied to bounded inputs.                               *)

\* The longest candidate path, in segments.
MaxSegs == 3

\* The file names candidate paths are made of.
SegNames == {"..", "a.cpp", "sub", "out", "in", "etc", "task2", "pw", "task"}

RECURSIVE RelPaths(_)
RelPaths(n) ==
    IF n = 1 THEN SegNames
    ELSE RelPaths(n - 1)
         \cup {p \o "/" \o s : p \in RelPaths(n - 1), s \in SegNames}

PathInputs == RelPaths(MaxSegs) \cup {"/" \o p : p \in RelPaths(MaxSegs)}

\* The task directory as the caller may spell it.
BaseDirs == {"/task", "/task/"}

GuardDirs == {"/", "/task", "/task/sub", "/task2", "/etc"}

GuardFiles == {"/task/a.cpp", "/task/sub/pw", "/task2/pw", "/etc/pw"}

GuardLinks == [p \in {"/task/out", "/task/in"} |->
                  IF p = "/task/out" THEN "/etc" ELSE "sub"]

InitGuard ==
    /\ dirs = GuardDirs
    /\ links = GuardLinks
    /\ mtime = [p \in GuardFiles |-> 0]
    /\ vKind = "none"
    /\ vBase = ""
    /\ vPath = ""
    /\ vResult = FALSE
    /\ verdict = "none"
    /\ post_gen_dir = NoneVal
    /\ snapshot = NoIo
    /\ named = NoIo
    /\ content = [p \in {} |-> ""]
    /\ clock = 0
    /\ task_dir = "/task"
    /\ gen_dir = NoneVal
    /\ params_source = NoneVal
    /\ params = [type |-> "Batch"]
    /\ pc = [p \in Procs |-> "idle"]
    /\ si = [p \in Procs |-> 0]
    /\ ti = [p \in Procs |-> 0]
    /\ io = [p \in Procs |-> NoIo]
    /\ generator = [p \in Procs |-> NoneVal]
    /\ log = [p \in Procs |-> <<>>]
    /\ outcome = [p \in Procs |-> "none"]
    /\ runs = 0
    /\ edits = 0
    /\ touched = {}

CheckFile ==
    \E b \in BaseDirs, p \in PathInputs :
        /\ vKind = "none"
        /\ vKind' = "file"
        /\ vBase' = b
        /\ vPath' = p
        /\ vResult' = Validator_file(p, b)
        /\ UNCHANGED <<fsVars, fnVars, genVars>>

CheckDir ==
    \E b \in BaseDirs, p \in PathInputs :
        /\ vKind = "none"
        /\ vKind' = "dir"
        /\ vBase' = b
        /\ vPath' = p
        /\ vResult' = Validator_dir(p, b)
        /\ UNCHANGED <<fsVars, fnVars, genVars>>

vars == <<fsVars, guardVars, genVars>>

NextGuard == CheckFile \/ CheckDir

SpecGuard == InitGuard /\ [][NextGuard]_vars

\* The canonical target of the last checked reference, and whether it lies
\* inside the canonical task directory: the task directory's components are
\* a prefix of the target's.
Target == realpath(join(vBase, vPath))

Inside(target, base) ==
    LET t == joinrealpath(<<>>, split(target), MaxLinkDepth)
        b == joinrealpath(<<>>, split(base), MaxLinkDepth)
    IN  Len(t) >= Len(b) /\ SubSeq(t, 1, Len(b)) = b

\* C1: every reference Validator.file / Validator.dir accepts against a task
\* directory has its canonical target inside the task directory.
C1_AcceptedInsideTaskDir ==
    (vKind # "none" /\ vResult) => Inside(Target, vBase)

----------------------------------------------------------------------------
(* main --generate_all: TaskProcessor(params_file, task_dir) and then      *)
(* generate_all(gen_dir), one file operation per step.                     *)

\* The most invocations in one behaviour, edits of task files, the latest
\* time, and the most testcases of a subtask.
MaxRuns == 2
MaxEdits == 1
MaxClock == 1
MaxTestcases == 2

\* An order of the steps that marks the error after the first two.
generate_all_steps_late_error ==
    <<"yaml", "checker", "mark_error", "testcases", "mark_ok">>

\* An order of the steps that generates the testcases before the checker.
generate_all_steps_testcases_first ==
    <<"mark_error", "yaml", "testcases", "checker", "mark_ok">>

\* An order of the steps that marks ok before the testcases are generated.
generate_all_steps_early_ok ==
    <<"mark_error", "yaml", "checker", "mark_ok", "testcases">>

\* An order of the steps that marks ok right after the snapshot.
generate_all_steps_ok_after_yaml ==
    <<"mark_error", "yaml", "mark_ok", "checker", "testcases">>

\* The steps of generate_all once generation is needed, in its order.
generate_all_steps == <<"mark_error", "yaml", "checker", "testcases", "mark_ok">>

step_after(step) ==
    LET i == CHOOSE k \in 1..Len(generate_all_steps) : generate_all_steps[k] = step
    IN  IF i = Len(generate_all_steps) THEN "return"
        ELSE generate_all_steps[i + 1]

\* self.module: None unless the parameters came from a .py file.
module_of(source) == IF source = ".py" THEN "module" ELSE NoneVal

yaml_path(gen) == join(gen, "module.yaml")

\* The testcase generate_testcases turns to after (s, t): the loops over
\* xrange(len(subtasks)) and xrange(len(testcases)).
RECURSIVE first_testcase_from(_, _)
first_testcase_from(subtasks, s) ==
    IF s >= Len(subtasks) THEN [done |-> TRUE, s |-> 0, t |-> 0]
    ELSE IF Len(subtasks[s + 1]["testcases"]) > 0
        THEN [done |-> FALSE, s |-> s, t |-> 0]
    ELSE first_testcase_from(subtasks, s + 1)

next_testcase(subtasks, s, t) ==
    IF t + 1 < Len(subtasks[s + 1]["testcases"])
    THEN [done |-> FALSE, s |-> s, t |-> t + 1]
    ELSE first_testcase_from(subtasks, s + 1)

\* What module.generate_testcase may return for a testcase.
GenResults ==
    { [input |-> "2\n1 2", output |-> "3"], [input |-> "7"], [output |-> "3"] }

\* What the compiled output generator prints for an input file.
generator_stdout(input) == "sum(" \o input \o ")"

Entry(op, path, s, t, r) == [op |-> op, path |-> path, s |-> s, t |-> t, io |-> r]

Logged(p, e) == log' = [log EXCEPT ![p] = Append(@, e)]

EndRun(p, how) ==
    /\ pc' = [pc EXCEPT ![p] = "idle"]
    /\ outcome' = [outcome EXCEPT ![p] = how]

Goto(p, step) ==
    IF step = "return" THEN EndRun(p, "ok")
    ELSE /\ pc' = [pc EXCEPT ![p] = step]
         /\ UNCHANGED outcome

\* main: the argument checks, the constructor (which validates) and the
\* head of generate_all (which returns when nothing needs generating).
Invoke(p) ==
    /\ pc[p] = "idle"
    /\ runs < MaxRuns
    /\ runs' = runs + 1
    /\ log' = [log EXCEPT ![p] = <<>>]
    /\ si' = [si EXCEPT ![p] = 0]
    /\ ti' = [ti EXCEPT ![p] = 0]
    /\ io' = [io EXCEPT ![p] = NoIo]
    /\ generator' = [generator EXCEPT ![p] = NoneVal]
    /\ IF ~isdir(task_dir) \/ ~isdir(gen_dir) THEN EndRun(p, "usage")
       ELSE IF assert_task_params(params, task_dir, NoneVal) # "ok"
           THEN EndRun(p, "invalid")
       ELSE IF ~needs_generating(task_dir, gen_dir) THEN EndRun(p, "skipped")
       ELSE /\ pc' = [pc EXCEPT ![p] = generate_all_steps[1]]
            /\ outcome' = [outcome EXCEPT ![p] = "running"]
    /\ UNCHANGED <<fsVars, guardVars, cfgVars, content, clock, edits, touched>>

\* mark_error: TaskProcessor.touch(gen_error).
MarkErrorTouch(p) ==
    /\ pc[p] = "mark_error"
    /\ mtime' = mark_error_touch(mtime, gen_dir, clock)
    /\ Logged(p, Entry("touch", gen_error_path(gen_dir), 0, 0, NoIo))
    /\ pc' = [pc EXCEPT ![p] = "mark_error_rm"]
    /\ UNCHANGED <<dirs, links, guardVars, cfgVars, content, clock, si, ti, io,
                   generator, outcome, runs, edits, touched>>

\* mark_error: if os.path.isfile(gen_ok): os.remove(gen_ok).
MarkErrorRemove(p) ==
    /\ pc[p] = "mark_error_rm"
    /\ mtime' = mark_error_remove(mtime, gen_dir)
    /\ IF mtime' # mtime
       THEN Logged(p, Entry("remove", gen_ok_path(gen_dir), 0, 0, NoIo))
       ELSE UNCHANGED log
    /\ Goto(p, step_after("mark_error"))
    /\ UNCHANGED <<dirs, links, guardVars, cfgVars, content, clock, si, ti, io,
                   generator, runs, edits, touched>>

\* generate_yaml: open(yaml_path, "w") and write _get_safe_yaml(gen_dir).
GenerateYaml(p) ==
    /\ pc[p] = "yaml"
    /\ mtime' = touch(mtime, yaml_path(gen_dir), clock)
    /\ Logged(p, Entry("write_yaml", yaml_path(gen_dir), 0, 0, NoIo))
    /\ LET r == get_safe_yaml(params, task_dir, gen_dir)
       IN  IF r.ok
           THEN /\ content' = write(content, yaml_path(gen_dir), r.doc)
                /\ Goto(p, step_after("yaml"))
           ELSE /\ content' = write(content, yaml_path(gen_dir), "")
                /\ EndRun(p, "failed")
    /\ UNCHANGED <<dirs, links, guardVars, cfgVars, clock, si, ti, io,
                   generator, runs, edits, touched>>

\* generate_checker: nothing without a checker, else compile_cpp, which
\* raises when g++ fails.
GenerateChecker(p) ==
    /\ pc[p] = "checker"
    /\ IF "checker" \notin DOMAIN params
       THEN /\ Goto(p, step_after("checker"))
            /\ UNCHANGED <<mtime, content, log>>
       ELSE \E compiled \in BOOLEAN :
            /\ Logged(p, Entry("compile", join(gen_dir, "checker"), 0, 0, NoIo))
            /\ IF compiled
               THEN /\ mtime' = touch(mtime, join(gen_dir, "checker"), clock)
                    /\ content' = write(content, join(gen_dir, "checker"), "binary")
                    /\ Goto(p, step_after("checker"))
               ELSE /\ UNCHANGED <<mtime, content>>
                    /\ EndRun(p, "failed")
    /\ UNCHANGED <<dirs, links, guardVars, cfgVars, clock, si, ti, io,
                   generator, runs, edits, touched>>

\* generate_testcases up to its loops: the module test, the return in
\* existing-testcases mode, and the compilation of the output generator.
GenerateTestcases(p) ==
    /\ pc[p] = "testcases"
    /\ IF module_of(params_source) = NoneVal
       THEN /\ EndRun(p, "failed")
            /\ UNCHANGED <<mtime, content, log, generator, si, ti>>
       ELSE IF "existing_testcases_format" \in DOMAIN params
       THEN /\ Goto(p, step_after("testcases"))
            /\ UNCHANGED <<mtime, content, log, generator, si, ti>>
       ELSE \E compiled \in BOOLEAN :
            LET first == first_testcase_from(params["subtasks"], 0)
                start ==
                    IF first.done
                    THEN /\ Goto(p, step_after("testcases"))
                         /\ UNCHANGED <<si, ti>>
                    ELSE /\ pc' = [pc EXCEPT ![p] = "tc_in"]
                         /\ si' = [si EXCEPT ![p] = first.s]
                         /\ ti' = [ti EXCEPT ![p] = first.t]
                         /\ UNCHANGED outcome
            IN  IF "output_generator" \notin DOMAIN params
                THEN /\ compiled
                     /\ generator' = [generator EXCEPT ![p] = NoneVal]
                     /\ UNCHANGED <<mtime, content, log>>
                     /\ start
                ELSE /\ Logged(p, Entry("compile", join(gen_dir, "generator.out"),
                                        0, 0, NoIo))
                     /\ IF compiled
                        THEN /\ generator' = [generator EXCEPT ![p] =
                                                 join(gen_dir, "generator.out")]
                             /\ mtime' = touch(mtime, join(gen_dir, "generator.out"),
                                               clock)
                             /\ content' = write(content,
                                                 join(gen_dir, "generator.out"),
                                                 "binary")
                             /\ start
                        ELSE /\ EndRun(p, "failed")
                             /\ UNCHANGED <<mtime, content, generator, si, ti>>
    /\ UNCHANGED <<dirs, links, guardVars, cfgVars, clock, io, runs, edits,
                   touched>>

\* An input path with the two indices exchanged.
testcase_input_path_swapped(gen, s, t) == join(gen, Constants_input_namer(t, s))

\* The paths _generate_testcase writes for (subtask_index, testcase_index).
testcase_input_path(gen, s, t) == join(gen, Constants_input_namer(s, t))

testcase_output_path(gen, s, t) == join(gen, Constants_output_namer(s, t))

\* _generate_testcase: call the module's generate_testcase and write the
\* input file; raise when the result has no "input".
GenerateTestcaseInput(p) ==
    /\ pc[p] = "tc_in"
    /\ \E r \in GenResults :
        LET path == testcase_input_path(gen_dir, si[p], ti[p])
        IN  IF "input" \notin DOMAIN r
            THEN /\ Logged(p, Entry("call", path, si[p], ti[p], r))
                 /\ EndRun(p, "failed")
                 /\ UNCHANGED <<mtime, content, io>>
            ELSE /\ log' = [log EXCEPT ![p] =
                               @ \o <<Entry("call", path, si[p], ti[p], r),
                                      Entry("write_input", path, si[p], ti[p], r)>>]
                 /\ mtime' = touch(mtime, path, clock)
                 /\ content' = write(content, path, r["input"])
                 /\ io' = [io EXCEPT ![p] = r]
                 /\ pc' = [pc EXCEPT ![p] = "tc_out"]
                 /\ UNCHANGED outcome
    /\ UNCHANGED <<dirs, links, guardVars, cfgVars, clock, si, ti, generator,
                   runs, edits, touched>>

\* The end of one _generate_testcase: on to the next testcase, or out of
\* generate_testcases.
Advance(p) ==
    LET nxt == next_testcase(params["subtasks"], si[p], ti[p])
    IN  IF nxt.done
        THEN /\ Goto(p, step_after("testcases"))
             /\ UNCHANGED <<si, ti>>
        ELSE /\ pc' = [pc EXCEPT ![p] = "tc_in"]
             /\ si' = [si EXCEPT ![p] = nxt.s]
             /\ ti' = [ti EXCEPT ![p] = nxt.t]
             /\ UNCHANGED outcome

\* _generate_testcase: write the returned output, or run the output
\* generator on the input file (run_io raises on a non-zero exit), or raise
\* when there is neither.
GenerateTestcaseOutput(p) ==
    /\ pc[p] = "tc_out"
    /\ LET path == testcase_output_path(gen_dir, si[p], ti[p])
           inp  == testcase_input_path(gen_dir, si[p], ti[p])
       IN  IF "output" \in DOMAIN io[p]
           THEN /\ Logged(p, Entry("write_output", path, si[p], ti[p], io[p]))
                /\ mtime' = touch(mtime, path, clock)
                /\ content' = write(content, path, io[p]["output"])
                /\ Advance(p)
           ELSE IF generator[p] = NoneVal
           THEN /\ EndRun(p, "failed")
                /\ UNCHANGED <<mtime, content, log, si, ti>>
           ELSE \E return_code \in {0, 1} :
                /\ Logged(p, Entry("run_generator", path, si[p], ti[p], io[p]))
                /\ mtime' = touch(mtime, path, clock)
                /\ IF return_code = 0
                   THEN /\ content' = write(content, path,
                                            generator_stdout(content[inp]))
                        /\ Advance(p)
                   ELSE /\ content' = write(content, path, "")
                        /\ EndRun(p, "failed")
                        /\ UNCHANGED <<si, ti>>
    /\ UNCHANGED <<dirs, links, guardVars, cfgVars, clock, io, generator, runs,
                   edits, touched>>

\* mark_ok: TaskProcessor.touch(gen_ok).
MarkOkTouch(p) ==
    /\ pc[p] = "mark_ok"
    /\ mtime' = mark_ok_touch(mtime, gen_dir, clock)
    /\ Logged(p, Entry("touch", gen_ok_path(gen_dir), 0, 0, NoIo))
    /\ pc' = [pc EXCEPT ![p] = "mark_ok_rm"]
    /\ touched' = {}
    /\ UNCHANGED <<dirs, links, guardVars, cfgVars, content, clock, si, ti, io,
                   generator, outcome, runs, edits>>

\* mark_ok: if os.path.isfile(gen_error): os.remove(gen_error).
MarkOkRemove(p) ==
    /\ pc[p] = "mark_ok_rm"
    /\ mtime' = mark_ok_remove(mtime, gen_dir)
    /\ IF mtime' # mtime
       THEN Logged(p, Entry("remove", gen_error_path(gen_dir), 0, 0, NoIo))
       ELSE UNCHANGED log
    /\ Goto(p, step_after("mark_ok"))
    /\ UNCHANGED <<dirs, links, guardVars, cfgVars, content, clock, si, ti, io,
                   generator, runs, edits, touched>>

\* The process is killed between two file operations.
Crash(p) ==
    /\ pc[p] # "idle"
    /\ EndRun(p, "crashed")
    /\ UNCHANGED <<fsVars, guardVars, cfgVars, content, clock, si, ti, io,
                   generator, log, runs, edits, touched>>

\* The files of the task directory an author edits between invocations.
EditFiles ==
    {"/task/module.py", "/task/sub/grader.cpp", "/task/statement.pdf",
     "/task/.notes", "/task/.git/index.cpp", "/task/auto.gen/old.cpp"}

\* What get_task_params of an edited module.py may return: the same
\* parameters, or parameters whose checker names a file that does not exist.
edited_params(p) ==
    {p, [k \in (DOMAIN p) \cup {"checker"} |->
            IF k = "checker" THEN "nochecker.cpp" ELSE p[k]]}

Edit(f) ==
    /\ \A p \in Procs : pc[p] = "idle"
    /\ edits < MaxEdits
    /\ edits' = edits + 1
    /\ mtime' = touch(mtime, f, clock)
    /\ touched' = touched \cup {f}
    /\ params' \in IF f = "/task/module.py" /\ params_source = ".py"
                   THEN edited_params(params) ELSE {params}
    /\ UNCHANGED <<dirs, links, guardVars, task_dir, gen_dir, params_source,
                   content, clock, runVars>>

\* Time passes between invocations; within one, every file operation gets
\* the same stamp (the coarsest clock, where modification times tie).
Tick ==
    /\ clock < MaxClock
    /\ \A p \in Procs : pc[p] = "idle"
    /\ clock' = clock + 1
    /\ UNCHANGED <<fsVars, guardVars, cfgVars, content, runVars, edits, touched>>

\* The task directory, with a statement, a hidden file, a nested source,
\* two pruned directories and existing testcases; the generation directory
\* is /gen or, inside the task directory, /task/gen.
TaskDirs ==
    {"/", "/gen", "/task", "/task/sub", "/task/.git", "/task/auto.gen",
     "/task/testcases", "/task/gen"}

TaskFiles ==
    EditFiles
    \cup {"/task/checker.cpp", "/task/solution.cpp", "/etc.cpp"}
    \cup {"/task/testcases/" \o format_d(n) \o e :
            n \in 1..(MaxTestcases + 1), e \in {".in", ".out"}}

GenDirs == {"/gen", "/task/gen"}

Shapes == {<<1>>, <<MaxTestcases, 1>>}

Empty == [k \in {} |-> TRUE]

AuthoringSubtasks(shape) ==
    [subtasks |->
        [i \in 1..Len(shape) |->
            [score |-> PyInt(IF i = 1 THEN 100 ELSE 0),
             testcases |-> [t \in 1..shape[i] |-> [seed |-> 10 * i + t]]]]]

ExistingSubtasks(shape) ==
    [subtasks |->
        [i \in 1..Len(shape) |->
            [score |-> PyInt(IF i = 1 THEN 100 ELSE 0),
             num_testcases |-> PyInt(shape[i])]]]

ExistingFormat ==
    [existing_testcases_format |->
        [input  |-> [callable |-> TRUE, prefix |-> "testcases/", suffix |-> ".in"],
         output |-> [callable |-> TRUE, prefix |-> "testcases/", suffix |-> ".out"]]]

\* checker: absent, a source of the task, a file outside the task directory.
CheckerChoices ==
    {Empty, [checker |-> "checker.cpp"], [checker |-> "../etc.cpp"]}

OutputGeneratorChoices == {Empty, [output_generator |-> "solution.cpp"]}

TaskParams ==
    { [type |-> "Batch", time |-> PyInt(3), memory |-> PyInt(64)] @@ c @@ g @@ s :
        c \in CheckerChoices, g \in OutputGeneratorChoices,
        s \in {AuthoringSubtasks(sh) : sh \in Shapes}
              \cup {ExistingFormat @@ ExistingSubtasks(sh) : sh \in Shapes} }

Init ==
    /\ dirs = TaskDirs
    /\ links = [k \in {} |-> ""]
    /\ mtime = [f \in TaskFiles |-> 0]
    /\ content = [f \in {} |-> ""]
    /\ clock = 0
    /\ task_dir = "/task"
    /\ gen_dir \in GenDirs
    /\ params_source \in {".py", ".yaml", "dict"}
    /\ params \in TaskParams
    /\ (params_source = ".yaml" => "existing_testcases_format" \notin DOMAIN params)
    /\ vKind = "none"
    /\ vBase = ""
    /\ vPath = ""
    /\ vResult = FALSE
    /\ verdict = "none"
    /\ post_gen_dir = NoneVal
    /\ snapshot = NoIo
    /\ named = NoIo
    /\ pc = [p \in Procs |-> "idle"]
    /\ si = [p \in Procs |-> 0]
    /\ ti = [p \in Procs |-> 0]
    /\ io = [p \in Procs |-> NoIo]
    /\ generator = [p \in Procs |-> NoneVal]
    /\ log = [p \in Procs |-> <<>>]
    /\ outcome = [p \in Procs |-> "none"]
    /\ runs = 0
    /\ edits = 0
    /\ touched = {}

Step(p) ==
    \/ Invoke(p)
    \/ MarkErrorTouch(p)
    \/ MarkErrorRemove(p)
    \/ GenerateYaml(p)
    \/ GenerateChecker(p)
    \/ GenerateTestcases(p)
    \/ GenerateTestcaseInput(p)
    \/ GenerateTestcaseOutput(p)
    \/ MarkOkTouch(p)
    \/ MarkOkRemove(p)
    \/ Crash(p)

\* The audit of a generated directory: TaskProcessor(module.yaml of the
\* generation directory, task_dir, post_gen_dir = gen_dir), made once, after
\* a run that ended with mark_ok: yaml.safe_load gives the document that was
\* dumped, and the constructor validates it.
Audit ==
    /\ \A p \in Procs : pc[p] = "idle"
    /\ \E p \in Procs : outcome[p] = "ok"
    /\ verdict = "none"
    /\ yaml_path(gen_dir) \in DOMAIN content
    /\ post_gen_dir' = gen_dir
    /\ verdict' = assert_task_params(content[yaml_path(gen_dir)], task_dir, gen_dir)
    /\ UNCHANGED <<fsVars, vKind, vBase, vPath, vResult, snapshot, named, genVars>>

\* One invocation at a time, as callers are told to arrange.
Next ==
    \/ Step("p1")
    \/ \E f \in EditFiles : Edit(f)
    \/ Tick
    \/ Audit

Spec == Init /\ [][Next]_vars

\* Two invocations on the same generation directory that nothing
\* coordinates: generate_all takes no lock, so the file operations of the
\* two runs interleave in any order.
InitRace == Init /\ params_source = ".py"

NextRace == \E p \in Procs : Step(p)

SpecRace == InitRace /\ [][NextRace]_vars

----------------------------------------------------------------------------
(* Properties of the generation run and of the staleness check.            *)

ErrorMarker == gen_error_path(gen_dir)

OkMarker == gen_ok_path(gen_dir)

Idle(p) == pc[p] = "idle"

Ended(p, how) == pc[p] = "idle" /\ outcome[p] = how

HasOp(l, ops) == \E i \in 1..Len(l) : l[i].op \in ops

LastOp(l) == IF l = <<>> THEN "" ELSE l[Len(l)].op

\* The operations that write generated material or run an external program.
WorkOps == {"write_yaml", "compile", "call", "write_input", "write_output",
            "run_generator"}

Authoring == "existing_testcases_format" \notin DOMAIN params

\* A file the staleness rule counts, said without the walk: below the task
\* directory, in no directory named auto.gen or starting with a dot, its own
\* name not starting with a dot and its extension not an ignored one.
Counted(f, base) ==
    /\ startswith(f, base \o "/")
    /\ LET comps == split(SubSeq(f, Len(base) + 2, Len(f)))
           n     == Len(comps)
       IN  /\ \A i \in 1..(n - 1) :
                 ~startswith(comps[i], ".") /\ comps[i] # "auto.gen"
           /\ ~startswith(comps[n], ".")
           /\ splitext_ext(comps[n]) \notin {".lyx", ".pdf", ".doc", ".docx", ".txt"}

\* C2: in a run that needs generation gen.error is written before the
\* snapshot, before the checker is compiled and before any testcase file:
\* while the run is under way and has done any of that work, gen.error
\* exists; and at every point of the run, and after it was interrupted at
\* any point, needs_generating on the same directories is true.
C2_ErrorMarkedBeforeWork ==
    \A p \in Procs :
        /\ (~Idle(p) /\ HasOp(log[p], WorkOps)) => isfile(ErrorMarker)
        /\ (~Idle(p) \/ Ended(p, "crashed"))
              => needs_generating(task_dir, gen_dir)

\* A run interrupted after it wrote a testcase input.
C2_InterruptedAfterInput ==
    /\ Ended("p1", "crashed")
    /\ HasOp(log["p1"], {"write_input"})
    /\ isfile(ErrorMarker)

\* C3: a run that completes all its steps writes gen.ok first and deletes
\* gen.error last: between the two operations both markers exist and
\* needs_generating is still true; on completion gen.ok exists, gen.error
\* does not, and the deletion is the run's last operation, the writing of
\* gen.ok the one before it.
C3_OkFirstErrorLast ==
    \A p \in Procs :
        /\ pc[p] = "mark_ok_rm"
              => /\ isfile(OkMarker)
                 /\ isfile(ErrorMarker)
                 /\ needs_generating(task_dir, gen_dir)
        /\ Ended(p, "ok")
              => /\ isfile(OkMarker)
                 /\ ~isfile(ErrorMarker)
                 /\ Len(log[p]) >= 2
                 /\ log[p][Len(log[p])]
                       = Entry("remove", ErrorMarker, 0, 0, NoIo)
                 /\ log[p][Len(log[p]) - 1]
                       = Entry("touch", OkMarker, 0, 0, NoIo)

\* A completed run that generated two subtasks.
C3_Completed ==
    /\ Ended("p1", "ok")
    /\ HasOp(log["p1"], {"write_output"})
    /\ Len(params["subtasks"]) = 2

\* C4: a run that fails in its generation phase ends there: gen.error
\* exists, the run has not written gen.ok, and gen.ok does not exist.
C4_FailedRunLeavesError ==
    \A p \in Procs :
        Ended(p, "failed")
            => /\ isfile(ErrorMarker)
               /\ ~isfile(OkMarker)
               /\ \A i \in 1..Len(log[p]) :
                     ~(log[p][i].op = "touch" /\ log[p][i].path = OkMarker)

\* A run that failed because the output generator exited non-zero.
C4_GeneratorExitedNonZero ==
    /\ Ended("p1", "failed")
    /\ LastOp(log["p1"]) = "run_generator"
    /\ runs = 2

\* The checker reference of p does not name a file inside the task directory.
BadChecker(p) ==
    /\ "checker" \in DOMAIN p
    /\ LET target == realpath(join(task_dir, p["checker"]))
       IN  target \notin DOMAIN mtime \/ ~Inside(target, task_dir)

\* C5 as stated: an invocation that fails in validation leaves gen.error
\* set when it terminates.
C5_ValidationFailureSetsError ==
    \A p \in Procs : Ended(p, "invalid") => isfile(ErrorMarker)

\* C5, amended: an invocation whose parameters fail validation ends in the
\* constructor, before generate_all: it touches no file, so gen.error and
\* gen.ok are afterwards exactly as they were before it.
C5_ValidationFailureLeavesMarkers ==
    [][ (Idle("p1") /\ runs' = runs + 1 /\ BadChecker(params))
          => /\ pc'["p1"] = "idle"
             /\ outcome'["p1"] = "invalid"
             /\ log'["p1"] = <<>>
             /\ mtime' = mtime
             /\ content' = content ]_vars

\* After a successful run the parameters were broken; the invocation failed
\* in validation, gen.ok is still there and gen.error is not.
C5_InvalidAfterSuccess ==
    /\ Ended("p1", "invalid")
    /\ BadChecker(params)
    /\ isfile(OkMarker)
    /\ ~isfile(ErrorMarker)

\* C6: after a successful generate_all, a second one on the same
\* directories with no file changed in between does nothing: no marker, no
\* snapshot, no testcase file is written (every modification time and every
\* content stays), and no compiler, callback or output generator is invoked.
C6_SecondRunDoesNothing ==
    [][ (Ended("p1", "ok") /\ touched = {} /\ runs' = runs + 1)
          => /\ pc'["p1"] = "idle"
             /\ outcome'["p1"] = "skipped"
             /\ log'["p1"] = <<>>
             /\ mtime' = mtime
             /\ content' = content ]_vars

\* A second invocation that was skipped, the generation directory being
\* inside the task directory.
C6_SkippedInsideTaskDir ==
    /\ Ended("p1", "skipped")
    /\ runs = 2
    /\ touched = {}
    /\ startswith(gen_dir, task_dir \o "/")
    /\ isfile(OkMarker)

\* C7: after a successful run, a counted file of the task directory given a
\* modification time newer than gen.ok's makes needs_generating true; when
\* the only files given a newer time have an ignored extension, it stays
\* false.
C7_TouchMakesStale ==
    \A p \in Procs :
        Ended(p, "ok") =>
            /\ (\E f \in touched :
                    Counted(f, task_dir) /\ mtime[f] > mtime[OkMarker])
                  => needs_generating(task_dir, gen_dir)
            /\ (\A f \in touched :
                    splitext_ext(f) \in {".lyx", ".pdf", ".doc", ".docx", ".txt"})
                  => ~needs_generating(task_dir, gen_dir)

\* The statement was given a newer time after a successful run.
C7_NewerStatement ==
    /\ Ended("p1", "ok")
    /\ touched = {"/task/statement.pdf"}
    /\ mtime["/task/statement.pdf"] > mtime[OkMarker]

\* C8: needs_generating is true exactly when gen.error exists, or gen.ok
\* does not, or a counted file of the task directory has a modification
\* time strictly greater than gen.ok's.
C8_NeedsGeneratingRule ==
    needs_generating(task_dir, gen_dir)
        <=> \/ isfile(ErrorMarker)
            \/ ~isfile(OkMarker)
            \/ \E f \in DOMAIN mtime :
                  Counted(f, task_dir) /\ mtime[f] > mtime[OkMarker]

\* gen.ok was written at the time a nested source was last edited, and a
\* file of a pruned directory is newer than both.
C8_TieAndPruned ==
    /\ isfile(OkMarker)
    /\ ~isfile(ErrorMarker)
    /\ mtime[OkMarker] = 0
    /\ mtime["/task/sub/grader.cpp"] = mtime[OkMarker]
    /\ mtime["/task/auto.gen/old.cpp"] > mtime[OkMarker]

\* The default name of testcase t of subtask s (both from zero, below 9).
DefaultName(s, t, ext) ==
    "0" \o Digits[s + 2] \o ".0" \o Digits[t + 2] \o ext

\* C9: after a successful run in authoring mode, for every testcase (s, t)
\* the generation directory holds the default-named input file with exactly
\* the input the callback returned for it, and the default-named output file
\* with exactly the output the callback returned, when it returned one.
C9_TestcaseFilesHoldCallbackResult ==
    \A p \in Procs :
        (Ended(p, "ok") /\ Authoring) =>
            \A s \in 0..(Len(params["subtasks"]) - 1) :
                \A t \in 0..(Len(params["subtasks"][s + 1]["testcases"]) - 1) :
                    LET inp == gen_dir \o "/" \o DefaultName(s, t, ".in")
                        out == gen_dir \o "/" \o DefaultName(s, t, ".out")
                    IN  \E i \in 1..Len(log[p]) :
                            /\ log[p][i].op = "call"
                            /\ log[p][i].s = s
                            /\ log[p][i].t = t
                            /\ "input" \in DOMAIN log[p][i].io
                            /\ inp \in DOMAIN mtime
                            /\ inp \in DOMAIN content
                            /\ content[inp] = log[p][i].io["input"]
                            /\ "output" \in DOMAIN log[p][i].io
                                  => /\ out \in DOMAIN mtime
                                     /\ out \in DOMAIN content
                                     /\ content[out] = log[p][i].io["output"]

\* One subtask with one testcase, the callback returning "2\n1 2" and "3".
C9_OneTestcase ==
    /\ Ended("p1", "ok")
    /\ Authoring
    /\ Len(params["subtasks"]) = 1
    /\ join(gen_dir, "01.01.out") \in DOMAIN content
    /\ content[join(gen_dir, "01.01.in")] = "2\n1 2"
    /\ content[join(gen_dir, "01.01.out")] = "3"

\* The (s, t, path) of the operations of l that are among ops.
Written(l, ops) ==
    {<<l[i].s, l[i].t, l[i].path>> : i \in {j \in 1..Len(l) : l[j].op \in ops}}

\* The (s, t, path) the snapshot lists under the given key.
Listed(subtasks, key) ==
    UNION {{<<s - 1, t - 1, subtasks[s]["testcases"][t][key]>> :
                t \in 1..Len(subtasks[s]["testcases"])} :
           s \in 1..Len(subtasks)}

\* C10: in authoring mode the paths of the snapshot are exactly the
\* locations the run writes testcase files to: the input (output) path the
\* snapshot lists for (s, t) is the one _generate_testcase wrote the input
\* (output) of (s, t) to, none listed that is not written, none written that
\* is not listed.
C10_SnapshotPathsAreWrittenPaths ==
    \A p \in Procs :
        (Ended(p, "ok") /\ Authoring) =>
            /\ yaml_path(gen_dir) \in DOMAIN content
            /\ LET subtasks == content[yaml_path(gen_dir)]["subtasks"]
               IN  /\ Len(subtasks) = Len(params["subtasks"])
                   /\ Listed(subtasks, "input")
                         = Written(log[p], {"write_input"})
                   /\ Listed(subtasks, "output")
                         = Written(log[p], {"write_output", "run_generator"})

\* A successful run of two subtasks, one with several testcases, some of
\* whose outputs the output generator produced.
C10_TwoSubtasks ==
    /\ Ended("p1", "ok")
    /\ Authoring
    /\ Len(params["subtasks"]) = 2
    /\ HasOp(log["p1"], {"run_generator"})
    /\ HasOp(log["p1"], {"write_output"})

\* The files other than marker are what they were, with their times.
OthersKept(marker) ==
    \A f \in ((DOMAIN mtime) \cup (DOMAIN mtime')) \ {marker} :
        f \in DOMAIN mtime /\ f \in DOMAIN mtime' /\ mtime'[f] = mtime[f]

\* The two file operations of mark_error, as steps of p1.
MarkErrorTouchStep == pc["p1"] = "mark_error" /\ pc'["p1"] = "mark_error_rm"

MarkErrorRemoveStep == pc["p1"] = "mark_error_rm" /\ outcome'["p1"] # "crashed"

\* C18 as stated: mark_error only creates or touches the error marker;
\* every file present before the step, gen.ok too, is present after it.
C18_MarkErrorRemovesNothing ==
    [][MarkErrorTouchStep \/ MarkErrorRemoveStep
          => (DOMAIN mtime) \subseteq (DOMAIN mtime')]_vars

\* C18: mark_error creates or touches the error marker and then removes
\* gen.ok if it is present; every other file is afterwards as it was, and no
\* file content changes.
C18_MarkErrorTouchesErrorRemovesOk ==
    [][(MarkErrorTouchStep =>
           /\ ErrorMarker \in DOMAIN mtime'
           /\ mtime'[ErrorMarker] = clock
           /\ OthersKept(ErrorMarker)
           /\ content' = content)
       /\ (MarkErrorRemoveStep =>
           /\ OkMarker \notin DOMAIN mtime'
           /\ OthersKept(OkMarker)
           /\ content' = content)]_vars

\* A run that found gen.ok of an earlier run and removed it in mark_error.
C18_OkMarkerRemoved ==
    /\ runs = 2
    /\ \E i \in 1..Len(log["p1"]) :
          log["p1"][i].op = "remove" /\ log["p1"][i].path = OkMarker
    /\ ErrorMarker \in DOMAIN mtime
    /\ OkMarker \notin DOMAIN mtime

\* The operations on testcases: the compilation of the output generator,
\* the generation callback, the testcase files.
TestcaseOps == {"call", "write_input", "write_output", "run_generator"}

CheckerPath == join(gen_dir, "checker")

IsCheckerCompile(e) == e.op = "compile" /\ e.path = CheckerPath

IsTestcaseOp(e) == e.op \in TestcaseOps \/ (e.op = "compile" /\ e.path # CheckerPath)

IsOkTouch(e) == e.op = "touch" /\ e.path = OkMarker

\* The place of an operation in the order snapshot, checker, testcases, ok.
Phase(e) ==
    IF e.op = "write_yaml" THEN 1
    ELSE IF IsCheckerCompile(e) THEN 2
    ELSE IF IsTestcaseOp(e) THEN 3
    ELSE IF IsOkTouch(e) \/ (e.op = "remove" /\ e.path = ErrorMarker) THEN 4
    ELSE 0

\* The parameters are those the run of the log was started with.
ParamsOfTheRun == ~Idle("p1") \/ "/task/module.py" \notin touched

\* C19: within one run the operations come in the order write snapshot,
\* compile the checker (only if one is declared), generate testcases, mark
\* ok; no testcase operation comes before the compilation of a declared
\* checker has succeeded, so a run whose checker compilation fails has
\* written the snapshot and no testcase file.
C19_SnapshotCheckerTestcasesOk ==
    LET l == log["p1"]
    IN  /\ \A i, j \in 1..Len(l) : i < j => Phase(l[i]) <= Phase(l[j])
        /\ \A j \in 1..Len(l) :
              Phase(l[j]) >= 2 => \E i \in 1..(j - 1) : l[i].op = "write_yaml"
        /\ ParamsOfTheRun =>
              \A j \in 1..Len(l) :
                 /\ IsCheckerCompile(l[j]) => "checker" \in DOMAIN params
                 /\ (Phase(l[j]) >= 3 /\ "checker" \in DOMAIN params) =>
                       \E i \in 1..(j - 1) :
                          /\ IsCheckerCompile(l[i])
                          /\ CheckerPath \in DOMAIN mtime
        /\ (Ended("p1", "failed") /\ l # <<>> /\ IsCheckerCompile(l[Len(l)])) =>
              /\ yaml_path(gen_dir) \in DOMAIN mtime
              /\ \A i \in 1..Len(l) : ~IsTestcaseOp(l[i])

\* A run that wrote the snapshot and failed in the compilation of the checker.
C19_CheckerCompilationFailed ==
    /\ Ended("p1", "failed")
    /\ log["p1"] # <<>>
    /\ IsCheckerCompile(log["p1"][Len(log["p1"])])
    /\ HasOp(log["p1"], {"write_yaml"})
    /\ yaml_path(gen_dir) \in DOMAIN mtime
    /\ runs = 1

\* C20: in existing-testcases mode, whatever the source of the parameters,
\* the testcase step of generate_all does nothing (no callback, no output
\* generator, no testcase file) and the run goes on to write the ok marker.
C20_ExistingModeSkipsToMarkOk ==
    [][(/\ pc["p1"] = "testcases"
        /\ "existing_testcases_format" \in DOMAIN params
        /\ outcome'["p1"] # "crashed")
          => /\ pc'["p1"] = "mark_ok"
             /\ mtime' = mtime
             /\ content' = content
             /\ log' = log]_vars

----------------------------------------------------------------------------
(* The validator and the serializer applied to bounded parameter sets: a   *)
(* valid set of three subtasks, changed in one or two places.              *)

ParamDirs == {"/", "/task", "/task/testcases", "/gen"}

ParamFiles ==
    {"/task/a.cpp", "/task/b.cpp", "/task/g.java", "/task/x.py", "/task/h.h",
     "/task/en.pdf", "/task/he.pdf", "/task/s.txt", "/task/checker.cpp",
     "/task/solution.cpp", "/etc.cpp",
     "/gen/checker", "/gen/01.01.in", "/gen/01.01.out"}
    \cup {"/task/testcases/" \o format_d(n) \o e :
            n \in 1..4, e \in {".in", ".out"}}
    \cup {"/task/testcases/" \o n \o e :
            n \in {"1.1", "2.1", "2.2", "3.1"}, e \in {".in", ".out"}}

\* Naming strategies that name by subtask and place in the subtask.
ExistingFormatBySubtask ==
    [existing_testcases_format |->
        [input  |-> [callable |-> TRUE, prefix |-> "testcases/", suffix |-> ".in",
                     by_subtask |-> TRUE],
         output |-> [callable |-> TRUE, prefix |-> "testcases/", suffix |-> ".out",
                     by_subtask |-> TRUE]]]

BaseParams ==
    [type |-> "Batch", time |-> PyInt(3), memory |-> PyInt(64),
     subtasks |->
        << [score |-> PyInt(30), testcases |-> <<[seed |-> 1]>>],
           [score |-> PyInt(30), testcases |-> <<[seed |-> 2], [seed |-> 3]>>,
            contains |-> <<1>>],
           [score |-> PyInt(40), testcases |-> <<[seed |-> 4]>>,
            contains |-> <<1, 2>>] >>]

Set(p, k, v) == [x \in (DOMAIN p) \cup {k} |-> IF x = k THEN v ELSE p[x]]

Del(p, k) == [x \in (DOMAIN p) \ {k} |-> p[x]]

\* p with key k of its subtask at 0-based index i set to v.
SetSub(p, i, k, v) ==
    IF "subtasks" \notin DOMAIN p \/ Len(p["subtasks"]) <= i THEN p
    ELSE Set(p, "subtasks",
             [j \in 1..Len(p["subtasks"]) |->
                 IF j = i + 1 THEN Set(p["subtasks"][j], k, v)
                 ELSE p["subtasks"][j]])

DelSub(p, i, k) ==
    IF "subtasks" \notin DOMAIN p \/ Len(p["subtasks"]) <= i THEN p
    ELSE Set(p, "subtasks",
             [j \in 1..Len(p["subtasks"]) |->
                 IF j = i + 1 THEN Del(p["subtasks"][j], k)
                 ELSE p["subtasks"][j]])

Repeat(v, n) == [i \in 1..n |-> v]

SubmitItem(name, score, files) ==
    [name |-> name, score |-> score, files |-> files]

Statement(language, path) == [language |-> language, path |-> path]

ExistingCounts(counts) ==
    [i \in 1..Len(counts) |->
        [score |-> PyInt(IF i = 1 THEN 100 ELSE 0),
         num_testcases |-> PyInt(counts[i])]]

\* The subtasks of a snapshot: one subtask with one testcase, of the given
\* input and output paths.
SnapshotSubtasks(input, output) ==
    <<[score |-> PyInt(100), num_testcases |-> PyInt(1),
       testcases |-> <<[input |-> input, output |-> output]>>,
       contains |-> <<>>]>>

TypeChanges ==
    {"type_missing", "type_unknown", "type_output_only", "type_two_steps"}

LimitChanges ==
    {"time_missing", "time_low", "time_high", "time_max", "memory_missing",
     "memory_low", "memory_min", "memory_high",
     "time_half", "time_fraction", "time_zero_float", "time_above",
     "time_nan", "time_string", "time_bool",
     "memory_max", "memory_float", "memory_nan", "memory_string", "memory_bool"}

FileListChanges ==
    {"attachments_ok", "attachments_missing_file", "attachments_outside",
     "attachments_100", "attachments_101",
     "graders_ok", "graders_duplicate", "graders_unknown_ext",
     "graders_unknown_then_duplicate", "graders_unknown_twice",
     "graders_missing_file",
     "managers_ok", "managers_bad_ext", "headers_ok", "headers_bad_ext",
     "og_ok", "og_bad_ext", "og_missing_file",
     "checker_ok", "checker_outside", "checker_bad_ext"}

StatementChanges ==
    {"statements_ok", "statements_collision", "statements_unknown_language",
     "statements_unknown_twice", "statements_txt",
     "statements_txt_then_collision", "statements_missing_file",
     "statements_no_path"}

AutoSubmitChanges ==
    {"auto_ok", "auto_empty", "auto_empty_name", "auto_name_30",
     "auto_name_31", "auto_score_high", "auto_two_files", "auto_bad_ext",
     "auto_30_items", "auto_31_items", "auto_extra_key",
     "auto_score_nan", "auto_score_half", "auto_score_negative",
     "auto_score_string", "auto_score_max", "auto_missing_file",
     "auto_outside", "auto_other_key", "auto_no_files"}

SubtaskChanges ==
    {"subtasks_missing", "subtasks_empty", "subtasks_100", "subtasks_101",
     "score_high", "score_negative", "score_missing",
     "contains_self", "contains_later", "contains_first",
     "contains_first_empty", "contains_zero", "contains_repeated",
     "contains_absent",
     "testcases_none", "testcases_200", "testcases_201", "testcases_missing",
     "existing_ok", "existing_missing_file", "existing_no_count",
     "existing_zero_count", "existing_by_subtask", "existing_by_subtask_missing",
     "score_float", "score_bool", "score_string", "score_nan", "score_zero",
     "score_max", "subtask_not_mapping", "testcase_not_mapping",
     "testcase_empty", "num_testcases_float", "num_testcases_bool",
     "num_testcases_201", "existing_both_keys", "authoring_count_only",
     "snapshot_in_task", "snapshot_in_gen", "snapshot_no_output",
     "snapshot_existing"}

ExtraChanges == {"extra_plain", "extra_callable"}

Changes ==
    {"none"} \cup TypeChanges \cup LimitChanges \cup FileListChanges
    \cup StatementChanges \cup AutoSubmitChanges \cup SubtaskChanges
    \cup ExtraChanges

Name30 == "abcdefghijklmnopqrstuvwxyz0123"

OneSubtask == [score |-> PyInt(1), testcases |-> <<[seed |-> 1]>>]

ChangeFileLists(p, c) ==
    CASE c = "attachments_ok" -> Set(p, "attachments", <<"s.txt", "a.cpp">>)
      [] c = "attachments_missing_file" -> Set(p, "attachments", <<"nofile.txt">>)
      [] c = "attachments_outside" -> Set(p, "attachments", <<"../etc.cpp">>)
      [] c = "attachments_100" -> Set(p, "attachments", Repeat("s.txt", 100))
      [] c = "attachments_101" -> Set(p, "attachments", Repeat("s.txt", 101))
      [] c = "graders_ok" -> Set(p, "graders", <<"a.cpp", "g.java">>)
      [] c = "graders_duplicate" -> Set(p, "graders", <<"a.cpp", "b.cpp">>)
      [] c = "graders_unknown_ext" -> Set(p, "graders", <<"x.py">>)
      [] c = "graders_unknown_then_duplicate" ->
            Set(p, "graders", <<"x.py", "a.cpp", "b.cpp">>)
      [] c = "graders_unknown_twice" -> Set(p, "graders", <<"x.py", "x.py">>)
      [] c = "graders_missing_file" -> Set(p, "graders", <<"a.cpp", "nofile.cpp">>)
      [] c = "managers_ok" -> Set(p, "managers", <<"a.cpp", "b.cpp">>)
      [] c = "managers_bad_ext" -> Set(p, "managers", <<"h.h">>)
      [] c = "headers_ok" -> Set(p, "headers", <<"h.h">>)
      [] c = "headers_bad_ext" -> Set(p, "headers", <<"a.cpp">>)
      [] c = "og_ok" -> Set(p, "output_generator", "solution.cpp")
      [] c = "og_bad_ext" -> Set(p, "output_generator", "g.java")
      [] c = "og_missing_file" -> Set(p, "output_generator", "nofile.cpp")
      [] c = "checker_ok" -> Set(p, "checker", "checker.cpp")
      [] c = "checker_outside" -> Set(p, "checker", "../etc.cpp")
      [] c = "checker_bad_ext" -> Set(p, "checker", "x.py")

ChangeStatements(p, c) ==
    Set(p, "statements",
        CASE c = "statements_ok" ->
                <<Statement("en", "en.pdf"), Statement("he", "he.pdf")>>
          [] c = "statements_collision" ->
                <<Statement("en", "en.pdf"), Statement("en", "he.pdf")>>
          [] c = "statements_unknown_language" -> <<Statement("fr", "en.pdf")>>
          [] c = "statements_unknown_twice" ->
                <<Statement("fr", "en.pdf"), Statement("fr", "he.pdf")>>
          [] c = "statements_txt" -> <<Statement("en", "s.txt")>>
          [] c = "statements_txt_then_collision" ->
                <<Statement("en", "s.txt"), Statement("en", "en.pdf")>>
          [] c = "statements_missing_file" -> <<Statement("en", "nofile.pdf")>>
          [] c = "statements_no_path" -> <<[language |-> "en"]>>)

ChangeAutoSubmit(p, c) ==
    Set(p, "auto_submit",
        CASE c = "auto_ok" -> <<SubmitItem("full", PyInt(100), <<"a.cpp">>)>>
          [] c = "auto_empty" -> <<>>
          [] c = "auto_empty_name" -> <<SubmitItem("", PyInt(100), <<"a.cpp">>)>>
          [] c = "auto_name_30" -> <<SubmitItem(Name30, PyInt(100), <<"a.cpp">>)>>
          [] c = "auto_name_31" -> <<SubmitItem(Name30 \o "4", PyInt(100), <<"a.cpp">>)>>
          [] c = "auto_score_high" -> <<SubmitItem("full", PyInt(1001), <<"a.cpp">>)>>
          [] c = "auto_two_files" -> <<SubmitItem("full", PyInt(100), <<"a.cpp", "b.cpp">>)>>
          [] c = "auto_bad_ext" -> <<SubmitItem("full", PyInt(100), <<"h.h">>)>>
          [] c = "auto_30_items" -> Repeat(SubmitItem("full", PyInt(100), <<"a.cpp">>), 30)
          [] c = "auto_31_items" -> Repeat(SubmitItem("full", PyInt(100), <<"a.cpp">>), 31)
          [] c = "auto_score_nan" -> <<SubmitItem("full", PyNaN, <<"a.cpp">>)>>
          [] c = "auto_score_half" -> <<SubmitItem("full", PyFloat(1), <<"a.cpp">>)>>
          [] c = "auto_score_negative" ->
                <<SubmitItem("full", PyInt(0 - 1), <<"a.cpp">>)>>
          [] c = "auto_score_string" -> <<SubmitItem("full", PyStr, <<"a.cpp">>)>>
          [] c = "auto_score_max" -> <<SubmitItem("full", PyInt(1000), <<"a.cpp">>)>>
          [] c = "auto_missing_file" ->
                <<SubmitItem("full", PyInt(100), <<"nofile.cpp">>)>>
          [] c = "auto_outside" -> <<SubmitItem("full", PyInt(100), <<"../etc.cpp">>)>>
          [] c = "auto_other_key" ->
                <<[title |-> "full", score |-> PyInt(100), files |-> <<"a.cpp">>]>>
          [] c = "auto_no_files" ->
                <<[name |-> "full", score |-> PyInt(100), public |-> 1]>>
          [] c = "auto_extra_key" ->
                <<Set(SubmitItem("full", PyInt(100), <<"a.cpp">>), "public", 1)>>)

ChangeSubtasks(p, c) ==
    CASE c = "subtasks_missing" -> Del(p, "subtasks")
      [] c = "subtasks_empty" -> Set(p, "subtasks", <<>>)
      [] c = "subtasks_100" -> Set(p, "subtasks", Repeat(OneSubtask, 100))
      [] c = "subtasks_101" -> Set(p, "subtasks", Repeat(OneSubtask, 101))
      [] c = "score_high" -> SetSub(p, 1, "score", PyInt(101))
      [] c = "score_negative" -> SetSub(p, 1, "score", PyInt(0 - 1))
      [] c = "score_missing" -> DelSub(p, 2, "score")
      [] c = "contains_self" -> SetSub(p, 2, "contains", <<3>>)
      [] c = "contains_later" -> SetSub(p, 1, "contains", <<3>>)
      [] c = "contains_first" -> SetSub(p, 0, "contains", <<1>>)
      [] c = "contains_first_empty" -> SetSub(p, 0, "contains", <<>>)
      [] c = "contains_zero" -> SetSub(p, 2, "contains", <<0>>)
      [] c = "contains_repeated" -> SetSub(p, 1, "contains", <<1, 1>>)
      [] c = "contains_absent" -> DelSub(p, 2, "contains")
      [] c = "testcases_none" -> SetSub(p, 1, "testcases", <<>>)
      [] c = "testcases_200" -> SetSub(p, 0, "testcases", Repeat([seed |-> 1], 200))
      [] c = "testcases_201" -> SetSub(p, 0, "testcases", Repeat([seed |-> 1], 201))
      [] c = "testcases_missing" -> DelSub(p, 1, "testcases")
      [] c = "existing_ok" ->
            Set(p, "subtasks", ExistingCounts(<<1, 2, 1>>)) @@ ExistingFormat
      [] c = "existing_missing_file" ->
            Set(p, "subtasks", ExistingCounts(<<1, 2, 2>>)) @@ ExistingFormat
      [] c = "existing_no_count" -> p @@ ExistingFormat
      [] c = "existing_by_subtask" ->
            Set(p, "subtasks", ExistingCounts(<<1, 2, 1>>)) @@ ExistingFormatBySubtask
      [] c = "existing_by_subtask_missing" ->
            Set(p, "subtasks", ExistingCounts(<<2, 1>>)) @@ ExistingFormatBySubtask
      [] c = "existing_zero_count" ->
            Set(p, "subtasks", ExistingCounts(<<1, 0>>)) @@ ExistingFormat
      [] c = "score_float" -> SetSub(p, 1, "score", PyFloat(60))
      [] c = "score_bool" -> SetSub(p, 1, "score", PyBool(TRUE))
      [] c = "score_string" -> SetSub(p, 1, "score", PyStr)
      [] c = "score_nan" -> SetSub(p, 1, "score", PyNaN)
      [] c = "score_zero" -> SetSub(p, 1, "score", PyInt(0))
      [] c = "score_max" -> SetSub(p, 1, "score", PyInt(100))
      [] c = "subtask_not_mapping" ->
            IF "subtasks" \notin DOMAIN p \/ Len(p["subtasks"]) < 2 THEN p
            ELSE Set(p, "subtasks", [j \in 1..Len(p["subtasks"]) |->
                                        IF j = 2 THEN PyOther ELSE p["subtasks"][j]])
      [] c = "testcase_not_mapping" -> SetSub(p, 1, "testcases", <<[seed |-> 2], PyOther>>)
      [] c = "testcase_empty" -> SetSub(p, 1, "testcases", <<Empty>>)
      [] c = "num_testcases_float" ->
            SetSub(Set(p, "subtasks", ExistingCounts(<<1, 2, 1>>)) @@ ExistingFormat,
                   0, "num_testcases", PyFloat(2))
      [] c = "num_testcases_bool" ->
            SetSub(Set(p, "subtasks", ExistingCounts(<<1, 2, 1>>)) @@ ExistingFormat,
                   0, "num_testcases", PyBool(TRUE))
      [] c = "num_testcases_201" ->
            Set(p, "subtasks", ExistingCounts(<<201>>)) @@ ExistingFormat
      [] c = "existing_both_keys" ->
            SetSub(Set(p, "subtasks", ExistingCounts(<<1, 2, 1>>)) @@ ExistingFormat,
                   1, "testcases", <<[seed |-> 1]>>)
      [] c = "authoring_count_only" ->
            Set(p, "subtasks", ExistingCounts(<<1, 2, 1>>))
      [] c = "snapshot_in_task" ->
            Set(p, "subtasks", SnapshotSubtasks("testcases/1.in", "testcases/1.out"))
      [] c = "snapshot_in_gen" ->
            Set(p, "subtasks", SnapshotSubtasks("/gen/01.01.in", "/gen/01.01.out"))
      [] c = "snapshot_no_output" ->
            Set(p, "subtasks",
                <<[score |-> PyInt(100), num_testcases |-> PyInt(1),
                   testcases |-> <<[input |-> "testcases/1.in"]>>,
                   contains |-> <<>>]>>)
      [] c = "snapshot_existing" ->
            Set(Set(p, "subtasks",
                    SnapshotSubtasks("/task/testcases/1.in", "/task/testcases/1.out")),
                "existing_testcases_format", PyTrue)

Change(p, c) ==
    CASE c = "none" -> p
      [] c = "type_missing" -> Del(p, "type")
      [] c = "type_unknown" -> Set(p, "type", "Interactive")
      [] c = "type_output_only" -> Set(p, "type", "OutputOnly")
      [] c = "type_two_steps" -> Set(p, "type", "TwoSteps")
      [] c = "time_missing" -> Del(p, "time")
      [] c = "time_low" -> Set(p, "time", PyInt(0))
      [] c = "time_high" -> Set(p, "time", PyInt(11))
      [] c = "time_max" -> Set(p, "time", PyInt(10))
      [] c = "memory_missing" -> Del(p, "memory")
      [] c = "time_half" -> Set(p, "time", PyFloat(1))
      [] c = "time_fraction" -> Set(p, "time", PyFloat(5))
      [] c = "time_zero_float" -> Set(p, "time", PyFloat(0))
      [] c = "time_above" -> Set(p, "time", PyFloat(21))
      [] c = "time_nan" -> Set(p, "time", PyNaN)
      [] c = "time_string" -> Set(p, "time", PyStr)
      [] c = "time_bool" -> Set(p, "time", PyBool(TRUE))
      [] c = "memory_max" -> Set(p, "memory", PyInt(1024))
      [] c = "memory_float" -> Set(p, "memory", PyFloat(128))
      [] c = "memory_nan" -> Set(p, "memory", PyNaN)
      [] c = "memory_string" -> Set(p, "memory", PyStr)
      [] c = "memory_bool" -> Set(p, "memory", PyBool(TRUE))
      [] c = "memory_low" -> Set(p, "memory", PyInt(15))
      [] c = "memory_min" -> Set(p, "memory", PyInt(16))
      [] c = "memory_high" -> Set(p, "memory", PyInt(1025))
      [] c \in FileListChanges -> ChangeFileLists(p, c)
      [] c \in StatementChanges -> ChangeStatements(p, c)
      [] c \in AutoSubmitChanges -> ChangeAutoSubmit(p, c)
      [] c \in SubtaskChanges -> ChangeSubtasks(p, c)
      [] c = "extra_plain" -> Set(p, "extra", [note |-> "plain"])
      [] c = "extra_callable" -> Set(p, "extra", [callable |-> TRUE])

ParamInputs == {Change(Change(BaseParams, c1), c2) : c1, c2 \in Changes}

InitParams ==
    /\ dirs = ParamDirs
    /\ links = [k \in {} |-> ""]
    /\ mtime = [f \in ParamFiles |-> 0]
    /\ vKind = "none"
    /\ vBase = ""
    /\ vPath = ""
    /\ vResult = FALSE
    /\ verdict = "none"
    /\ post_gen_dir = NoneVal
    /\ snapshot = NoIo
    /\ named = NoIo
    /\ content = [f \in {} |-> ""]
    /\ clock = 0
    /\ task_dir = "/task"
    /\ gen_dir = "/gen"
    /\ params_source = "dict"
    /\ \E c1, c2 \in Changes : params = Change(Change(BaseParams, c1), c2)
    /\ pc = [p \in Procs |-> "idle"]
    /\ si = [p \in Procs |-> 0]
    /\ ti = [p \in Procs |-> 0]
    /\ io = [p \in Procs |-> NoIo]
    /\ generator = [p \in Procs |-> NoneVal]
    /\ log = [p \in Procs |-> <<>>]
    /\ outcome = [p \in Procs |-> "none"]
    /\ runs = 0
    /\ edits = 0
    /\ touched = {}

\* TaskProcessor.__init__: Validator.assert_task_params(self.params,
\* task_dir, post_gen_dir), post_gen_dir being None or the generation
\* directory.
Validate ==
    /\ verdict = "none"
    /\ \E g \in {NoneVal, gen_dir} :
          /\ post_gen_dir' = g
          /\ verdict' = assert_task_params(params, task_dir, g)
    /\ UNCHANGED <<fsVars, vKind, vBase, vPath, vResult, snapshot, named,
                   genVars>>

\* _get_safe_yaml(gen_dir) on the parameters of a processor made to
\* generate (no post_gen_dir).
Serialize ==
    /\ verdict = "ok"
    /\ post_gen_dir = NoneVal
    /\ snapshot = NoIo
    /\ snapshot' = get_safe_yaml(params, task_dir, gen_dir)
    /\ UNCHANGED <<fsVars, vKind, vBase, vPath, vResult, verdict, post_gen_dir,
                   named, genVars>>

NextParams == Validate \/ Serialize

SpecParams == InitParams /\ [][NextParams]_vars

----------------------------------------------------------------------------
(* The default naming scheme applied to every pair of indices the          *)
(* validator permits.                                                      *)

InitNames ==
    /\ InitParams
    /\ params = BaseParams

\* Constants.input_namer and Constants.output_namer called for the testcase
\* at 0-based index t of the subtask at 0-based index s.
CallNamers ==
    /\ named = NoIo
    /\ \E s \in 0..(Constants_max_subtasks - 1),
          t \in 0..(Constants_max_subtask_testcases - 1) :
          named' = [subtask_index |-> s, subtask_testcase_index |-> t,
                    input |-> Constants_input_namer(s, t),
                    output |-> Constants_output_namer(s, t)]
    /\ UNCHANGED <<fsVars, vKind, vBase, vPath, vResult, verdict, post_gen_dir,
                   snapshot, genVars>>

NextNames == CallNamers

SpecNames == InitNames /\ [][NextNames]_vars

----------------------------------------------------------------------------
(* Properties of the validator and of the serializer.                      *)

\* An integer (an int, or a bool, which Python counts as one) in lo..hi.
IntegerIn(number, lo, hi) ==
    /\ number.kind \in {"int", "bool"}
    /\ number.halves \in (2 * lo)..(2 * hi)

\* A number, integral or fractional, between lo / 2 and hi / 2.
NumberIn(number, lo, hi) ==
    /\ number.kind \in {"int", "bool", "float"}
    /\ ~number.nan
    /\ number.halves \in lo..hi

\* A value that is not plain data under a key the serializer copies as is.
ResidualCallable(p) == "extra" \in DOMAIN p /\ "callable" \in DOMAIN p["extra"]

ExistingMode == "existing_testcases_format" \in DOMAIN params

\* The number of testcases a validated subtask declares.
TestcaseCount(subtask) ==
    IF ExistingMode THEN int_value(subtask["num_testcases"])
    ELSE Len(subtask["testcases"])

Serialized == snapshot # NoIo /\ snapshot.ok

\* C11: the snapshot of validated parameters holds no dynamic value:
\* existing_testcases_format, when present, is the boolean true; the
\* testcases of every subtask are {input, output} path pairs, as many as the
\* subtask has testcases; contains is the empty list when the subtask did not
\* declare it; the paths are rooted at the task directory in
\* existing-testcases mode and at the generation directory otherwise; and
\* when a value that is not plain data remains, serialization fails.
C11_SnapshotHoldsPlainData ==
    snapshot # NoIo =>
        /\ ResidualCallable(params) => ~snapshot.ok
        /\ snapshot.ok =>
            LET doc == snapshot.doc
                root == IF ExistingMode THEN task_dir ELSE gen_dir
            IN  /\ ExistingMode => doc["existing_testcases_format"] = PyTrue
                /\ Len(doc["subtasks"]) = Len(params["subtasks"])
                /\ \A i \in 1..Len(doc["subtasks"]) :
                      LET copy == doc["subtasks"][i]
                          declared == params["subtasks"][i]
                      IN  /\ Len(copy["testcases"]) = TestcaseCount(declared)
                          /\ \A t \in 1..Len(copy["testcases"]) :
                                /\ DOMAIN copy["testcases"][t] = {"input", "output"}
                                /\ startswith(copy["testcases"][t]["input"],
                                              root \o "/")
                                /\ startswith(copy["testcases"][t]["output"],
                                              root \o "/")
                          /\ copy["contains"] =
                                IF "contains" \in DOMAIN declared
                                THEN declared["contains"] ELSE <<>>

\* A snapshot written in existing-testcases mode for subtasks that declare
\* no contains list.
C11_ExistingSnapshot ==
    /\ Serialized
    /\ ExistingMode
    /\ \E i \in 1..Len(params["subtasks"]) :
          /\ "contains" \notin DOMAIN params["subtasks"][i]
          /\ TestcaseCount(params["subtasks"][i]) = 2

\* A reference that names an existing file inside the task directory.
InTaskDir(path) ==
    LET target == realpath(join(task_dir, path))
    IN  target \in DOMAIN mtime /\ Inside(target, task_dir)

FilesInTaskDir(paths) == \A i \in 1..Len(paths) : InTaskDir(paths[i])

ExtsIn(paths, allowed) ==
    \A i \in 1..Len(paths) : splitext_ext(paths[i]) \in allowed

\* The testcases counted before the subtask at 1-based index i.
CountedBefore(p, i) ==
    sum_counts([j \in 1..Len(p["subtasks"]) |->
                   IF "num_testcases" \in DOMAIN p["subtasks"][j]
                   THEN int_value(p["subtasks"][j]["num_testcases"]) ELSE 0],
               1, i - 1)

\* The constraints on the optional file fields.
AttachmentsOK(p) ==
    "attachments" \in DOMAIN p => FilesInTaskDir(p["attachments"])

GradersOK(p) ==
    "graders" \in DOMAIN p =>
        /\ FilesInTaskDir(p["graders"])
        /\ ExtsIn(p["graders"], Constants_source_exts)
        /\ \A i, j \in 1..Len(p["graders"]) :
              i # j => splitext_ext(p["graders"][i]) # splitext_ext(p["graders"][j])

ManagersOK(p) ==
    "managers" \in DOMAIN p =>
        FilesInTaskDir(p["managers"]) /\ ExtsIn(p["managers"], Constants_source_exts)

HeadersOK(p) ==
    "headers" \in DOMAIN p =>
        FilesInTaskDir(p["headers"]) /\ ExtsIn(p["headers"], Constants_headers_exts)

OutputGeneratorOK(p) ==
    "output_generator" \in DOMAIN p =>
        /\ InTaskDir(p["output_generator"])
        /\ splitext_ext(p["output_generator"]) \in Constants_output_generator_exts

CheckerOK(p) ==
    "checker" \in DOMAIN p =>
        /\ InTaskDir(p["checker"])
        /\ splitext_ext(p["checker"]) \in Constants_checker_exts

FileFieldsOK(p) ==
    /\ AttachmentsOK(p)
    /\ GradersOK(p)
    /\ ManagersOK(p)
    /\ HeadersOK(p)
    /\ OutputGeneratorOK(p)
    /\ CheckerOK(p)

\* The constraints on the statements: language and path, a permitted
\* language, an existing file, no language twice.
StatementsOK(p) ==
    "statements" \in DOMAIN p =>
        /\ \A i \in 1..Len(p["statements"]) :
              /\ {"language", "path"} \subseteq DOMAIN p["statements"][i]
              /\ p["statements"][i]["language"] \in Constants_statement_langs
              /\ InTaskDir(p["statements"][i]["path"])
        /\ \A i, j \in 1..Len(p["statements"]) :
              i # j => p["statements"][i]["language"] # p["statements"][j]["language"]

\* The constraints on the auto-submit items: only for Batch, the triple
\* (name, score, files), a name of at most 30 characters, a score in
\* 0..1000, exactly one source file.
AutoSubmitOK(p) ==
    "auto_submit" \in DOMAIN p =>
        /\ p["auto_submit"] # <<>> => p["type"] = "Batch"
        /\ \A i \in 1..Len(p["auto_submit"]) :
              LET item == p["auto_submit"][i]
              IN  /\ DOMAIN item = {"name", "score", "files"}
                  /\ Len(item["name"]) <= 30
                  /\ NumberIn(item["score"], 0, 2 * 1000)
                  /\ Len(item["files"]) = 1
                  /\ FilesInTaskDir(item["files"])
                  /\ ExtsIn(item["files"], Constants_source_exts)

\* A value that is a mapping.
IsMapping(value) == "pytype" \notin DOMAIN value

\* The constraints on the subtask at 1-based index i: a mapping with a score
\* in 0..100, 1..200 testcases, contains a set of earlier 1-based indices,
\* in existing-testcases mode the files of every testcase in the task
\* directory, and in authoring mode every testcase a mapping.
SubtaskOK(p, i) ==
    LET existing == "existing_testcases_format" \in DOMAIN p
        subtask == p["subtasks"][i]
    IN  /\ IsMapping(subtask)
        /\ "score" \in DOMAIN subtask
        /\ IntegerIn(subtask["score"], 0, 100)
        /\ "contains" \in DOMAIN subtask =>
              /\ \A k \in 1..Len(subtask["contains"]) :
                    subtask["contains"][k] \in 1..(i - 1)
              /\ \A k, l \in 1..Len(subtask["contains"]) :
                    k # l => subtask["contains"][k] # subtask["contains"][l]
        /\ IF existing
           THEN /\ existing_is_dict(p)
                /\ "num_testcases" \in DOMAIN subtask
                /\ IntegerIn(subtask["num_testcases"], 1, 200)
                /\ \A t \in 0..(int_value(subtask["num_testcases"]) - 1) :
                      /\ InTaskDir(call_namer(p["existing_testcases_format"]["input"],
                                              i - 1, t, CountedBefore(p, i) + t))
                      /\ InTaskDir(call_namer(p["existing_testcases_format"]["output"],
                                              i - 1, t, CountedBefore(p, i) + t))
           ELSE /\ "testcases" \in DOMAIN subtask
                /\ Len(subtask["testcases"]) \in 1..200
                /\ \A t \in 1..Len(subtask["testcases"]) :
                      IsMapping(subtask["testcases"][t])

\* The constraints on the subtasks: 1..100 of them, each as above.
SubtasksOK(p) ==
    /\ "subtasks" \in DOMAIN p
    /\ Len(p["subtasks"]) \in 1..100
    /\ \A i \in 1..Len(p["subtasks"]) : SubtaskOK(p, i)

\* Every field constraint of the data model and of the schema validator's
\* contract (time between 0.5 s and 10 s).
FieldConstraints(p) ==
    /\ "type" \in DOMAIN p
    /\ p["type"] \in {"Batch", "OutputOnly", "TwoSteps"}
    /\ p["type"] # "OutputOnly" =>
          /\ "time" \in DOMAIN p
          /\ NumberIn(p["time"], 1, 2 * 10)
          /\ "memory" \in DOMAIN p
          /\ IntegerIn(p["memory"], 16, 1024)
    /\ FileFieldsOK(p)
    /\ StatementsOK(p)
    /\ AutoSubmitOK(p)
    /\ SubtasksOK(p)

\* The constraints the validator adds: at most 100 attachments, statements
\* that are .pdf files, at most 30 auto-submit items, each with a name that
\* is not empty.
AttachmentsLimit(p) ==
    "attachments" \in DOMAIN p => Len(p["attachments"]) <= 100

StatementsLimit(p) ==
    "statements" \in DOMAIN p =>
        \A i \in 1..Len(p["statements"]) :
           splitext_ext(p["statements"][i]["path"]) = ".pdf"

AutoSubmitLimit(p) ==
    "auto_submit" \in DOMAIN p =>
        /\ Len(p["auto_submit"]) <= 30
        /\ \A i \in 1..Len(p["auto_submit"]) : Len(p["auto_submit"][i]["name"]) >= 1

ValidatorLimits(p) ==
    AttachmentsLimit(p) /\ StatementsLimit(p) /\ AutoSubmitLimit(p)

\* The parameters went through the validation of a processor made to
\* generate (no post_gen_dir).
Validated == verdict # "none" /\ post_gen_dir = NoneVal

\* C12 as stated: every parameter set that satisfies the field constraints
\* is accepted by assert_task_params.
C12_FieldConstraintsSuffice ==
    Validated /\ FieldConstraints(params) => verdict = "ok"

\* C12: every parameter set that satisfies the field constraints, has at
\* most 100 attachments and 30 auto-submit items, names every auto-submit
\* item and has .pdf statements, is accepted by assert_task_params.
C12_AcceptedWithinValidatorLimits ==
    Validated /\ FieldConstraints(params) /\ ValidatorLimits(params)
        => verdict = "ok"

\* An accepted set that has 100 attachments and a statement in each language.
C12_AcceptedAtTheLimits ==
    /\ verdict = "ok"
    /\ FieldConstraints(params) /\ ValidatorLimits(params)
    /\ "attachments" \in DOMAIN params
    /\ Len(params["attachments"]) = 100
    /\ "statements" \in DOMAIN params
    /\ Len(params["statements"]) = 2

TypeOK(p) == "type" \in DOMAIN p /\ p["type"] \in {"Batch", "OutputOnly", "TwoSteps"}

LimitsOK(p) ==
    p["type"] # "OutputOnly" =>
        /\ "time" \in DOMAIN p
        /\ NumberIn(p["time"], 1, 2 * 10)
        /\ "memory" \in DOMAIN p
        /\ IntegerIn(p["memory"], 16, 1024)

\* The checks of assert_task_params after that of the root object, in the
\* order of the claim, and whether the parameters satisfy what each asks.


StageOK(p, k) ==
    CASE k = 1 -> TypeOK(p)
      [] k = 2 -> LimitsOK(p)
      [] k = 3 -> AttachmentsOK(p) /\ AttachmentsLimit(p)
      [] k = 4 -> GradersOK(p)
      [] k = 5 -> ManagersOK(p)
      [] k = 6 -> HeadersOK(p)
      [] k = 7 -> StatementsOK(p) /\ StatementsLimit(p)
      [] k = 8 -> OutputGeneratorOK(p)
      [] k = 9 -> AutoSubmitOK(p) /\ AutoSubmitLimit(p)
      [] k = 10 -> CheckerOK(p)
      [] k = 11 -> SubtasksOK(p)

AllStagesOK(p) == \A k \in 1..11 : StageOK(p, k)

\* The earliest check the parameters violate.
FirstViolated(p) ==
    CHOOSE k \in 1..11 :
        (\A j \in 1..(k - 1) : StageOK(p, j)) /\ ~StageOK(p, k)

\* The earliest subtask, by 1-based index, that violates its constraints.
FirstBadSubtask(p) ==
    CHOOSE i \in 1..Len(p["subtasks"]) :
        (\A j \in 1..(i - 1) : SubtaskOK(p, j)) /\ ~SubtaskOK(p, i)

\* The error of each check run on its own; that of the subtasks check on a
\* list of 1..100 subtasks is the error of its earliest bad subtask.
StageError(p, k) ==
    CASE k = 1 -> assert_task_type(p)
      [] k = 2 -> assert_task_limits(p)
      [] k = 3 -> assert_task_attachments(p, task_dir)
      [] k = 4 -> assert_task_graders(p, task_dir)
      [] k = 5 -> assert_task_managers(p, task_dir)
      [] k = 6 -> assert_task_headers(p, task_dir)
      [] k = 7 -> assert_task_statements(p, task_dir)
      [] k = 8 -> assert_task_output_generator(p, task_dir)
      [] k = 9 -> assert_auto_submit(p, task_dir)
      [] k = 10 -> assert_task_checker(p, task_dir, NoneVal)
      [] k = 11 ->
            IF "subtasks" \in DOMAIN p /\ Len(p["subtasks"]) \in 1..100
            THEN LET i == FirstBadSubtask(p)
                     counts == [j \in 1..Len(p["subtasks"]) |->
                                   int_value(subtask_num_testcases(p, p["subtasks"][j]))]
                 IN  assert_subtask(p, i - 1, sum_counts(counts, 1, i - 1),
                                    task_dir, NoneVal)
            ELSE assert_task_subtasks(p, task_dir, NoneVal)

\* No number that the validator compares with fractions allowed (the time
\* limit, the score of an auto-submit item) is the float nan, and
\* existing_testcases_format, where present, is the pair of naming strategies.
ProperValues(p) ==
    /\ "existing_testcases_format" \in DOMAIN p => existing_is_dict(p)
    /\ "time" \in DOMAIN p => ~p["time"].nan
    /\ "auto_submit" \in DOMAIN p =>
          \A i \in 1..Len(p["auto_submit"]) :
              "score" \in DOMAIN p["auto_submit"][i]
                  => ~p["auto_submit"][i]["score"].nan

\* C13: validation is ordered and stops at the first violation: the
\* verdict on parameters that violate one or more checks (task kind,
\* limits, attachments, graders, managers, headers, statements, output
\* generator, auto-submit, checker, subtasks in index order) is the error of
\* the earliest violated check, whatever the later checks would say; and
\* parameters that violate none are accepted. The numbers of the parameters
\* are numbers proper (none is the float nan) and existing_testcases_format
\* is absent or the pair of naming strategies.
C13_EarliestViolationDecides ==
    Validated /\ ProperValues(params) =>
        IF AllStagesOK(params) THEN verdict = "ok"
        ELSE /\ verdict # "ok"
             /\ verdict = StageError(params, FirstViolated(params))

\* Parameters that violate the graders check and the subtasks check, refused
\* with the error of the graders check.
C13_TwoViolations ==
    /\ Validated
    /\ TypeOK(params) /\ LimitsOK(params)
    /\ ~GradersOK(params)
    /\ ~SubtasksOK(params)
    /\ verdict = assert_task_graders(params, task_dir)
    /\ verdict # assert_task_subtasks(params, task_dir, NoneVal)

\* The subtask at 1-based index i declares a contains list with an entry
\* that is not the 1-based index of an earlier subtask.
BadContains(p, i) ==
    /\ "contains" \in DOMAIN p["subtasks"][i]
    /\ \E k \in 1..Len(p["subtasks"][i]["contains"]) :
          p["subtasks"][i]["contains"][k] \notin 1..(i - 1)

ContainsError == "contained subtasks should be a valid numbers_list"

\* C14: a contains list is accepted only if every entry is at least 1 and
\* strictly less than the subtask's own 1-based index: parameters in which
\* some subtask's list has another entry (the subtask itself, a later one,
\* zero; any entry at all for the first subtask) are refused, and with the
\* error of the contains check when that subtask is the earliest violation.
C14_ContainsOnlyEarlierSubtasks ==
    Validated /\ "subtasks" \in DOMAIN params =>
        \A i \in 1..Len(params["subtasks"]) :
            BadContains(params, i) =>
                /\ verdict # "ok"
                /\ (/\ \A k \in 1..10 : StageOK(params, k)
                    /\ Len(params["subtasks"]) <= 100
                    /\ FirstBadSubtask(params) = i
                    /\ "score" \in DOMAIN params["subtasks"][i]
                    /\ IntegerIn(params["subtasks"][i]["score"], 0, 100))
                   => verdict = ContainsError

\* The subtask at 0-based index 2 containing [3], refused.
C14_ContainsItself ==
    /\ verdict = ContainsError
    /\ Len(params["subtasks"]) = 3
    /\ "contains" \in DOMAIN params["subtasks"][3]
    /\ params["subtasks"][3]["contains"] = <<3>>

DuplicateGrader == "Duplicate grader type"

UnknownGraderExt == "Unknown grader extension"

\* Two entries of the list have the same extension.
SharedExt(paths) ==
    \E i, j \in 1..Len(paths) :
        i < j /\ splitext_ext(paths[i]) = splitext_ext(paths[j])

\* The position of the first entry whose extension an earlier entry has.
FirstRepeat(paths) ==
    CHOOSE j \in 1..Len(paths) :
        /\ \E i \in 1..(j - 1) : splitext_ext(paths[i]) = splitext_ext(paths[j])
        /\ \A k \in 1..(j - 1) :
              \A i \in 1..(k - 1) : splitext_ext(paths[i]) # splitext_ext(paths[k])

\* Validation has come to a graders list of existing files.
GradersChecked ==
    /\ Validated
    /\ \A k \in 1..3 : StageOK(params, k)
    /\ "graders" \in DOMAIN params
    /\ FilesInTaskDir(params["graders"])

\* C15 as stated: every graders list of existing files in which two entries
\* share an extension is refused with the duplicate-grader error.
C15_SharedExtensionGivesDuplicateError ==
    GradersChecked /\ SharedExt(params["graders"]) => verdict = DuplicateGrader

\* C15: a graders list of existing files is accepted only if every
\* extension is an allowed source extension and no two are the same; a list
\* in which two entries share an extension is refused, with the
\* duplicate-grader error when every entry up to the first repeated one has
\* an allowed extension, and with the unknown-extension error otherwise.
C15_GradersAllowedAndDistinct ==
    GradersChecked =>
        LET graders == params["graders"]
        IN  /\ ~ExtsIn(graders, Constants_source_exts) \/ SharedExt(graders)
                => verdict \in {UnknownGraderExt, DuplicateGrader}
            /\ SharedExt(graders) =>
                  verdict =
                     IF \E k \in 1..FirstRepeat(graders) :
                           splitext_ext(graders[k]) \notin Constants_source_exts
                     THEN UnknownGraderExt ELSE DuplicateGrader

\* Two graders in C++, refused as duplicates.
C15_TwoCppGraders ==
    /\ GradersChecked
    /\ Len(params["graders"]) = 2
    /\ \A i \in 1..2 : splitext_ext(params["graders"][i]) = ".cpp"
    /\ verdict = DuplicateGrader

LanguageCollision == "Statement language collision"

\* Two entries of the list have the same language.
SharedLanguage(statements) ==
    \E i, j \in 1..Len(statements) :
        i < j /\ statements[i]["language"] = statements[j]["language"]

\* The position of the first entry whose language an earlier entry has.
FirstRepeatedLanguage(statements) ==
    CHOOSE j \in 1..Len(statements) :
        /\ \E i \in 1..(j - 1) : statements[i]["language"] = statements[j]["language"]
        /\ \A k \in 1..(j - 1) :
              \A i \in 1..(k - 1) : statements[i]["language"] # statements[k]["language"]

\* A statement that passes every check made on a single entry.
StatementEntryOK(info) ==
    /\ info["language"] \in Constants_statement_langs
    /\ splitext_ext(info["path"]) = ".pdf"
    /\ InTaskDir(info["path"])

\* Validation has come to a statements list of {language, path} entries.
StatementsChecked ==
    /\ Validated
    /\ \A k \in 1..6 : StageOK(params, k)
    /\ "statements" \in DOMAIN params
    /\ \A i \in 1..Len(params["statements"]) :
          {"language", "path"} \subseteq DOMAIN params["statements"][i]

\* C16 as stated: every statements list with two entries of the same
\* language is refused with the language-collision error.
C16_SharedLanguageGivesCollisionError ==
    StatementsChecked /\ SharedLanguage(params["statements"])
        => verdict = LanguageCollision

\* C16: a statements list is accepted only if every language is a
\* permitted code and no two entries have the same language; a list with two
\* entries of the same language is refused, with the language-collision
\* error exactly when every entry before the first repeated one passes its
\* own checks (a permitted language, a .pdf path, an existing file of the
\* task directory), and with the error of the earlier entry otherwise.
C16_StatementsPermittedAndDistinct ==
    StatementsChecked =>
        LET statements == params["statements"]
        IN  /\ (\/ \E i \in 1..Len(statements) :
                      statements[i]["language"] \notin Constants_statement_langs
                \/ SharedLanguage(statements))
                => verdict \notin {"ok", "none"}
            /\ SharedLanguage(statements) =>
                  (verdict = LanguageCollision
                      <=> \A k \in 1..(FirstRepeatedLanguage(statements) - 1) :
                             StatementEntryOK(statements[k]))

\* Two statements in English, refused as a collision.
C16_TwoEnglishStatements ==
    /\ StatementsChecked
    /\ Len(params["statements"]) = 2
    /\ \A i \in 1..2 : params["statements"][i]["language"] = "en"
    /\ verdict = LanguageCollision

\* The number a string of decimal digits writes, -1 if it has another
\* character.
RECURSIVE DecimalValue(_)
DecimalValue(str) ==
    IF str = "" THEN 0
    ELSE LET last == SubSeq(str, Len(str), Len(str))
             rest == DecimalValue(SubSeq(str, 1, Len(str) - 1))
         IN  IF rest < 0 \/ \A d \in 1..10 : Digits[d] # last THEN 0 - 1
             ELSE 10 * rest + (CHOOSE d \in 0..9 : Digits[d + 1] = last)

\* name is SS.TT followed by suffix, SS and TT of the given widths writing
\* the numbers subtask and testcase.
WrittenAs(name, subtask, width_s, testcase, width_t, suffix) ==
    /\ Len(name) = width_s + 1 + width_t + Len(suffix)
    /\ DecimalValue(SubSeq(name, 1, width_s)) = subtask
    /\ SubSeq(name, width_s + 1, width_s + 1) = "."
    /\ DecimalValue(SubSeq(name, width_s + 2, width_s + 1 + width_t)) = testcase
    /\ SubSeq(name, width_s + width_t + 2, Len(name)) = suffix

\* C17 as stated: the default names are SS.TT.in and SS.TT.out with the
\* 1-based subtask and testcase numbers in exactly two digits each.
C17_TwoDigitsEach ==
    named # NoIo =>
        /\ WrittenAs(named.input, named.subtask_index + 1, 2,
                     named.subtask_testcase_index + 1, 2, ".in")
        /\ WrittenAs(named.output, named.subtask_index + 1, 2,
                     named.subtask_testcase_index + 1, 2, ".out")

\* The digits "%02d" writes for a number of 1..999.
Width(n) == IF n < 100 THEN 2 ELSE 3

\* C17: for every subtask index and testcase index the validator permits,
\* the default names are SS.TT.in and SS.TT.out with the 1-based subtask and
\* testcase numbers in two digits each up to 99, zero-padded, and in three
\* digits from 100 on (the subtask 100, the testcases 100 to 200).
C17_AtLeastTwoDigitsEach ==
    named # NoIo =>
        LET subtask == named.subtask_index + 1
            testcase == named.subtask_testcase_index + 1
        IN  /\ WrittenAs(named.input, subtask, Width(subtask),
                         testcase, Width(testcase), ".in")
            /\ WrittenAs(named.output, subtask, Width(subtask),
                         testcase, Width(testcase), ".out")

\* The names of the last testcase of the last subtask the validator permits.
C17_LastPermittedTestcase ==
    /\ named # NoIo
    /\ named.input = "100.200.in"
    /\ named.output = "100.200.out"

-----------------------------------------------------------------------------
(* Properties of the testcase check and of the numeric checks              *)

\* The number of testcases the subtask at 1-based index i declares: its
\* num_testcases when existing_testcases_format is present, the length of
\* its testcases otherwise.
DeclaredCount(p, i) == int_value(subtask_num_testcases(p, p["subtasks"][i]))

\* The testcases declared before the subtask at 1-based index i.
DeclaredBefore(p, i) ==
    sum_counts([j \in 1..Len(p["subtasks"]) |-> DeclaredCount(p, j)], 1, i - 1)

\* What the subtask at 1-based index i must satisfy apart from its
\* testcases: a mapping, an integer score in 0..100, contains a list of
\* distinct earlier indices, and a count in 1..200 under the key of its mode.
SubtaskShapeOK(p, i) ==
    LET subtask == p["subtasks"][i]
    IN  /\ IsMapping(subtask)
        /\ "score" \in DOMAIN subtask
        /\ IntegerIn(subtask["score"], 0, 100)
        /\ "contains" \in DOMAIN subtask =>
              /\ \A k \in 1..Len(subtask["contains"]) :
                    subtask["contains"][k] \in 1..(i - 1)
              /\ \A k, l \in 1..Len(subtask["contains"]) :
                    k # l => subtask["contains"][k] # subtask["contains"][l]
        /\ IF "existing_testcases_format" \in DOMAIN p
           THEN /\ "num_testcases" \in DOMAIN subtask
                /\ IntegerIn(subtask["num_testcases"], 1, 200)
           ELSE /\ "testcases" \in DOMAIN subtask
                /\ Len(subtask["testcases"]) \in 1..200

\* Validation with generation directory gen (or none) gets as far as the
\* testcases and refuses nothing but a testcase: every check before the
\* subtasks passes and every subtask is well shaped.
TestcasesDecide(p, gen) ==
    /\ \A k \in 1..9 : StageOK(p, k)
    /\ assert_task_checker(p, task_dir, gen) = "ok"
    /\ "subtasks" \in DOMAIN p
    /\ Len(p["subtasks"]) \in 1..100
    /\ \A i \in 1..Len(p["subtasks"]) : SubtaskShapeOK(p, i)

\* What the testcase check asks of the testcase at 0-based index t of the
\* subtask at 0-based index s, the testcase being the one of 0-based global
\* index g: by priority, (1) with a pair of naming strategies, the names
\* they give for (s, t, g) are existing files inside the task directory;
\* (2) with a generation directory, the testcase is a mapping whose input
\* and output paths are existing files (looked up from the task directory);
\* (3) the testcase is a mapping.
TestcaseOK(p, s, t, g, gen) ==
    IF existing_is_dict(p) THEN
        /\ InTaskDir(call_namer(p["existing_testcases_format"]["input"], s, t, g))
        /\ InTaskDir(call_namer(p["existing_testcases_format"]["output"], s, t, g))
    ELSE
        LET subtask == p["subtasks"][s + 1]
        IN  /\ "testcases" \in DOMAIN subtask
            /\ t + 1 <= Len(subtask["testcases"])
            /\ IsMapping(subtask["testcases"][t + 1])
            /\ gen # NoneVal =>
                  /\ "input" \in DOMAIN subtask["testcases"][t + 1]
                  /\ "output" \in DOMAIN subtask["testcases"][t + 1]
                  /\ InTaskDir(subtask["testcases"][t + 1]["input"])
                  /\ InTaskDir(subtask["testcases"][t + 1]["output"])

AllTestcasesOK(p, gen) ==
    \A i \in 1..Len(p["subtasks"]) :
        \A t \in 0..(DeclaredCount(p, i) - 1) :
            TestcaseOK(p, i - 1, t, DeclaredBefore(p, i) + t, gen)

WithoutLimits(p) == Del(Del(p, "time"), "memory")

SubtasksFieldOK(p) ==
    /\ "subtasks" \in DOMAIN p
    /\ Len(p["subtasks"]) \in 1..100
    /\ \A i \in 1..Len(p["subtasks"]) :
          LET subtask == p["subtasks"][i]
          IN  /\ IsMapping(subtask)
              /\ "score" \in DOMAIN subtask
              /\ IntegerIn(subtask["score"], 0, 100)
              /\ IF "existing_testcases_format" \in DOMAIN p
                 THEN /\ "num_testcases" \in DOMAIN subtask
                      /\ IntegerIn(subtask["num_testcases"], 1, 200)
                 ELSE /\ "testcases" \in DOMAIN subtask
                      /\ Len(subtask["testcases"]) \in 1..200

\* C23: validation accepts the subtasks field only if it is a list of 1 to
\* 100 subtasks, each a mapping with an integer score in 0..100 and a count
\* of testcases in 1..200 (the length of testcases in authoring mode, the
\* integer num_testcases in existing-testcases mode): parameters with no
\* or too many subtasks, a subtask that is no mapping, a score that is
\* fractional, no number or out of range, a count of 0 or above 200 or not
\* an integer, or the key of the other mode only, are refused.
C23_SubtasksFieldChecked ==
    verdict # "none" /\ ~SubtasksFieldOK(params) => verdict # "ok"

\* Parameters in existing-testcases mode, right in everything but a subtask
\* that has testcases and no num_testcases, refused.
C23_KeyOfTheOtherMode ==
    /\ verdict \notin {"none", "ok"}
    /\ \A k \in 1..10 : StageOK(params, k)
    /\ existing_is_dict(params)
    /\ "subtasks" \in DOMAIN params
    /\ \E i \in 1..Len(params["subtasks"]) :
          /\ "testcases" \in DOMAIN params["subtasks"][i]
          /\ "num_testcases" \notin DOMAIN params["subtasks"][i]
          /\ IntegerIn(params["subtasks"][i]["score"], 0, 100)

\* C24 as stated: an absent or empty auto_submit list changes nothing for
\* any task kind (the verdict is that of the parameters without the field),
\* and parameters with a non-empty list are accepted only when the kind is
\* Batch and every item has exactly the keys name, score and files, a name
\* of at most 30 characters, a score in 0..1000 and one existing file inside
\* the task directory with a source extension.
C24_AutoSubmitItemsWellFormed ==
    Validated =>
        /\ ("auto_submit" \in DOMAIN params /\ params["auto_submit"] = <<>>)
              => verdict = assert_task_params(Del(params, "auto_submit"),
                                              task_dir, NoneVal)
        /\ verdict = "ok" => AutoSubmitOK(params)

\* C25 as stated: the snapshot written by a generate_all that completed,
\* loaded and validated in post-generation mode with the same task directory
\* and generation directory, is accepted, wherever the generation directory
\* is.
C25_AuditAcceptsSnapshot ==
    (verdict # "none" /\ post_gen_dir = gen_dir) => verdict = "ok"

\* gen.ok exists and gen.error does not.
MarkersSayDone == OkMarker \in DOMAIN mtime /\ ErrorMarker \notin DOMAIN mtime

IsErrorTouch(e) == e.op = "touch" /\ e.path = ErrorMarker

\* The part of the log l before its entry k.
Before(l, k) == SubSeq(l, 1, k - 1)

\* C26: with one run at a time, from a directory without markers, and a
\* crash possible after any file operation: whenever gen.ok exists and
\* gen.error does not, the snapshot is written, the checker it declares is
\* compiled and every testcase file it lists exists (written by a run in
\* authoring mode); and when the last invocation is the run that wrote the
\* error marker, that run wrote the snapshot, compiled the declared checker
\* and wrote every listed testcase file (the output by itself or through
\* the output generator) before it touched gen.ok.
C26_OkWithoutErrorMeansComplete ==
    MarkersSayDone =>
        /\ yaml_path(gen_dir) \in DOMAIN content
        /\ LET doc == content[yaml_path(gen_dir)]
               authoring == "existing_testcases_format" \notin DOMAIN doc
               listed == Listed(doc["subtasks"], "input")
                             \cup Listed(doc["subtasks"], "output")
               l == log["p1"]
           IN  /\ "checker" \in DOMAIN doc => CheckerPath \in DOMAIN content
               /\ \A e \in listed :
                     /\ e[3] \in DOMAIN mtime
                     /\ authoring => e[3] \in DOMAIN content
               /\ (\E i \in 1..Len(l) : IsErrorTouch(l[i])) =>
                     \E k \in 1..Len(l) :
                        /\ IsOkTouch(l[k])
                        /\ HasOp(Before(l, k), {"write_yaml"})
                        /\ "checker" \in DOMAIN doc =>
                              \E i \in 1..(k - 1) : IsCheckerCompile(l[i])
                        /\ authoring =>
                              /\ Listed(doc["subtasks"], "input")
                                    \subseteq Written(Before(l, k), {"write_input"})
                              /\ Listed(doc["subtasks"], "output")
                                    \subseteq Written(Before(l, k),
                                              {"write_output", "run_generator"})

\* A second run, made after an edit, that wrote the error marker, removed
\* the gen.ok of the first run and completed.
C26_RegeneratedAfterEdit ==
    /\ MarkersSayDone
    /\ runs = 2
    /\ \E i \in 1..Len(log["p1"]) : IsErrorTouch(log["p1"][i])
    /\ \E i \in 1..Len(log["p1"]) :
          log["p1"][i].op = "remove" /\ log["p1"][i].path = OkMarker
    /\ "checker" \in DOMAIN params
    /\ Authoring

\* The run of p is between its mark_error and its mark_ok.
BetweenMarks(p) == pc[p] \in {"yaml", "checker", "testcases", "tc_in", "tc_out"}

\* C27: two runs on one generation directory are not coordinated: a state
\* is reached in which gen.ok exists and gen.error does not while a run is
\* between its mark_error and its mark_ok, and in every such state the
\* staleness check returns false although that run has written its error
\* marker and has not marked ok itself: the markers are those the other run
\* left.
C27_OkOfTheOtherRunHidesTheRunInProgress ==
    \A p \in Procs :
        (MarkersSayDone /\ BetweenMarks(p)) =>
            /\ ~needs_generating(task_dir, gen_dir)
            /\ \E i \in 1..Len(log[p]) : IsErrorTouch(log[p][i])
            /\ \A i \in 1..Len(log[p]) : ~IsOkTouch(log[p][i])

\* gen.ok without gen.error, left by the run that completed, while the
\* other run is still writing testcases.
C27_OkWhileTheOtherRunWrites ==
    \E p, q \in Procs :
        /\ p # q
        /\ MarkersSayDone
        /\ pc[p] \in {"tc_in", "tc_out"}
        /\ Ended(q, "ok")
        /\ ~needs_generating(task_dir, gen_dir)

\* C28: in existing-testcases mode the validator and the serializer name
\* the same testcases: for the testcase at 0-based place t of the subtask at
\* 0-based index s, the snapshot of validated parameters lists the task
\* directory joined with what the naming strategies give for (s, t, g), g
\* being the number of testcases of the earlier subtasks plus t; it lists as
\* many as the subtask declares; and each listed path is a file the
\* validator found inside the task directory.
C28_SnapshotListsWhatWasVerified ==
    (Serialized /\ existing_is_dict(params)) =>
        \A i \in 1..Len(params["subtasks"]) :
            LET fmt == params["existing_testcases_format"]
                listed == snapshot.doc["subtasks"][i]["testcases"]
            IN  /\ Len(listed) = DeclaredCount(params, i)
                /\ \A t \in 1..Len(listed) :
                      LET g == DeclaredBefore(params, i) + t - 1
                          input_name == call_namer(fmt["input"], i - 1, t - 1, g)
                          output_name == call_namer(fmt["output"], i - 1, t - 1, g)
                      IN  /\ listed[t]["input"] = join(task_dir, input_name)
                          /\ listed[t]["output"] = join(task_dir, output_name)
                          /\ InTaskDir(input_name)
                          /\ InTaskDir(output_name)
                          /\ listed[t]["input"] \in DOMAIN mtime
                          /\ listed[t]["output"] \in DOMAIN mtime

\* The snapshot of parameters in existing-testcases mode whose second
\* subtask has two testcases, the global index of each differing from its
\* place in the subtask.
C28_LaterSubtaskListed ==
    /\ Serialized
    /\ existing_is_dict(params)
    /\ Len(params["subtasks"]) = 3
    /\ DeclaredCount(params, 2) = 2
    /\ DeclaredBefore(params, 2) = 1
    /\ snapshot.doc["subtasks"][2]["testcases"][2]["input"] = "/task/testcases/3.in"

=============================================================================
